---- MODULE Spec2Model ----
(***************************************************************************)
(* State-machine model of the two amplifier clients of this repository:    *)
(*   Family A  src/devialet_expert.py   (UDP status / UDP commands)        *)
(*   Family B  src/minidsp_rs_client.py (UDP discovery / HTTP + websocket) *)
(* Each handler or coroutine step that runs without suspension on the      *)
(* asyncio loop is one action.                                             *)
(***************************************************************************)
EXTENDS Integers, Sequences, FiniteSets, TLC

VARIABLES
    devices,           \* Family A NetworkController.devices: name -> Device
    on_new_device,     \* Family A NetworkController.on_new_device (listener list)
    on_device_update,  \* Family A NetworkController.on_device_update
    emitted,           \* listener calls made by the most recent datagram handler
    b_devices,         \* Family B NetworkController.devices: name -> Device
    b_on_new_device,   \* Family B NetworkController.on_new_device
    received,          \* number of datagrams handed to the listeners so far
    target,            \* a Device held by a caller of Device.update
    snapshot,          \* the Device passed to that call
    ret,               \* what the most recent Device.update call returned
    merges,            \* number of Device.update calls made on target
    sessions,          \* transient UDP sessions of the async_send_command calls in flight
    wire,              \* per device, the datagrams of the most recent transmission
    raised,            \* exception of the most recent control call that ended
    calls,             \* number of control calls made so far
    posted,            \* the most recent HTTP request a Family B setter posted
    status_transport,  \* per family, NetworkController.status_transport
    closes,            \* per family, calls of status_transport.close() so far
    tasks,             \* async_on_status tasks scheduled and not yet started
    last_received,     \* per name, the latest status datagram received
    gathering,         \* async_on_status tasks suspended in asyncio.gather
    db_input,          \* argument of the most recent _db_convert call
    retval,            \* what that call returned
    hass_data,         \* hass.data.get(DATA_NETWORK_CONTROLLER)
    controllers,       \* the NetworkController objects constructed so far
    flows,             \* the nc of each _async_has_devices call that is waiting
    bus                \* the EVENT_HOMEASSISTANT_STOP listener of async_setup

vars == <<devices, on_new_device, on_device_update, emitted,
          b_devices, b_on_new_device, received,
          target, snapshot, ret, merges, sessions, wire, raised, calls,
          posted, status_transport, closes, tasks, last_received, gathering,
          db_input, retval, hass_data, controllers, flows, bus>>

registryVars == <<devices, on_new_device, on_device_update, emitted,
                  b_devices, b_on_new_device, received>>
mergeVars == <<target, snapshot, ret, merges>>
commandVars == <<sessions, wire, raised, calls>>
ioVars == <<posted, status_transport, closes>>
loopVars == <<tasks, last_received, gathering>>
convertVars == <<db_input, retval>>
lifecycleVars == <<hass_data, controllers, flows, bus>>

-----------------------------------------------------------------------------
(* Bounds of the model *)

MaxPackets == 3      \* datagrams received in one behaviour
MaxListeners == 1    \* listeners registered per listener list
MaxMerges == 2       \* direct Device.update calls in one behaviour
MaxCommands == 3     \* control calls in one behaviour
MaxInflight == 2     \* control calls suspended at the same time
MaxDbEighths == 800  \* quietest level a setter is given: -100 dB, in eighths

(* Inputs *)

Names == {"Living Room", "Study"}
Callables == {"listener"}
None == "None"

-----------------------------------------------------------------------------
(* Family A status datagram: the bytes Device.__init__ reads.  b307, b308  *)
(* and b310 are the bytes at those offsets; tbl selects the content of the *)
(* fifteen 17-byte source slots that start at offset 52.                   *)

SlotIndexes == 0..14

\* the names of slot content 3, which names every slot
FullSlotNames ==
    <<"Phono", "Line 1", "Line 2", "Coax 1", "Coax 2", "Coax 3", "Coax 4",
      "Optical 1", "Optical 2", "AES/EBU", "USB", "Ethernet", "Air", "HDMI",
      "Spotify">>

SlotNameBytes(tbl, i) ==
    CASE tbl = 3 -> FullSlotNames[i + 1]
      [] i = 0  -> "Phono"
      [] i = 1  -> "Line 1"
      [] i = 10 -> IF tbl = 1 THEN "USB" ELSE "Air"
      [] OTHER  -> ""

\* the ASCII digit at offset 52 + 17 i: "1" (49) or "0" (48)
SlotEnabledByte(tbl, i) ==
    CASE tbl = 3 -> 49
      [] i = 0  -> 49
      [] i = 1  -> IF tbl = 1 THEN 48 ELSE 49
      [] i = 10 -> 49
      [] OTHER  -> 48

\* identity of the Device object constructed while the next datagram is handled
NextOid == received + 1

Source(name, index, is_enabled, is_selected) ==
    [name |-> name, index |-> index,
     is_enabled |-> is_enabled, is_selected |-> is_selected]

\* the loop of Device.__init__ over the source slots: the list built from slot
\* content tbl when the selected source is source
ParsedSources ==
    [tbl \in {1, 2, 3}, source \in 0..15 |->
        [i \in SlotIndexes |->
            Source(SlotNameBytes(tbl, i), i, SlotEnabledByte(tbl, i) - 48,
                   i = source)]]

\* Device.__init__(status_data, addr); oid is the identity of the new object
Device_init(status_data, addr, oid) ==
    LET source == (status_data.b308 \div 4) % 16   \* (b & 0x3C) >> 2
    IN  [oid         |-> oid,
         ip_address  |-> addr,
         name        |-> status_data.name,
         source      |-> source,
         sources     |-> ParsedSources[status_data.tbl, source],
         power       |-> (status_data.b307 \div 128) % 2 = 1,   \* b & 0x80
         muted       |-> (status_data.b308 \div 2) % 2 = 1,     \* b & 0x2
         volume      |-> status_data.b310,
         num_packets |-> 0,
         num_commands |-> 0]

\* update without its name guard (lines 104-106 dropped)
update_unguarded(self, device_update) ==
    [dev |-> [self EXCEPT !.ip_address = device_update.ip_address,
                          !.source = device_update.source,
                          !.power = device_update.power,
                          !.muted = device_update.muted,
                          !.volume = device_update.volume,
                          !.sources = device_update.sources],
     ret |-> \/ device_update.ip_address # self.ip_address
             \/ device_update.source # self.source
             \/ device_update.power # self.power
             \/ device_update.muted # self.muted
             \/ device_update.volume # self.volume]

\* update that counts the reassigned sources list as new information
update_sources_dirty(self, device_update) ==
    IF device_update.name # self.name
    THEN [dev |-> self, ret |-> FALSE]
    ELSE [dev |-> update_unguarded(self, device_update).dev, ret |-> TRUE]

\* update that takes the sources list only when another field changed
update_lazy_sources(self, device_update) ==
    IF device_update.name # self.name
    THEN [dev |-> self, ret |-> FALSE]
    ELSE LET m == update_unguarded(self, device_update) IN
         [dev |-> IF m.ret THEN m.dev ELSE self, ret |-> m.ret]

\* update without line 123: the source list of the first datagram is kept
update_keeps_sources(self, device_update) ==
    IF device_update.name # self.name
    THEN [dev |-> self, ret |-> FALSE]
    ELSE [dev |-> [self EXCEPT !.ip_address = device_update.ip_address,
                               !.source = device_update.source,
                               !.power = device_update.power,
                               !.muted = device_update.muted,
                               !.volume = device_update.volume],
          ret |-> \/ device_update.ip_address # self.ip_address
                  \/ device_update.source # self.source
                  \/ device_update.power # self.power
                  \/ device_update.muted # self.muted
                  \/ device_update.volume # self.volume]

\* Device.update(device_update): the Device after the call and the value returned
update(self, device_update) ==
    IF device_update.name # self.name
    THEN [dev |-> self, ret |-> FALSE]
    ELSE [dev |-> [self EXCEPT !.ip_address = device_update.ip_address,
                               !.source = device_update.source,
                               !.power = device_update.power,
                               !.muted = device_update.muted,
                               !.volume = device_update.volume,
                               !.sources = device_update.sources],
          ret |-> \/ device_update.ip_address # self.ip_address
                  \/ device_update.source # self.source
                  \/ device_update.power # self.power
                  \/ device_update.muted # self.muted
                  \/ device_update.volume # self.volume]

\* Device.get_sources()
get_sources(self) ==
    {self.sources[i].name : i \in {j \in SlotIndexes : self.sources[j].is_enabled # 0}}

-----------------------------------------------------------------------------
(* Family A registry *)

\* bytes 307, 308, 310 and the slot content of the status datagrams received
StatusContents ==
    { [b307 |-> 128, b308 |-> 0,  b310 |-> 195, tbl |-> 1],    \* on, source 0
      [b307 |-> 0,   b308 |-> 6,  b310 |-> 0,   tbl |-> 2] }   \* off, muted, source 1

StatusPacket(name, c) ==
    [name |-> name, b307 |-> c.b307, b308 |-> c.b308, b310 |-> c.b310,
     tbl |-> c.tbl]

StatusPackets == {StatusPacket(n, c) : n \in Names, c \in StatusContents}

\* the datagrams the listener receives: (data, addr) pairs
StatusDatagrams ==
    {<<p, "10.0.0.2">> : p \in StatusPackets}
    \cup {<<p, "10.0.0.3">> : p \in {q \in StatusPackets : q.b308 = 0 /\ q.b310 = 195}}

NewDeviceEvent(listener, device) ==
    [kind |-> "new_device", listener |-> listener, device |-> device.oid,
     name |-> device.name, changed |-> FALSE]

DeviceUpdatedEvent(listener, device, new_state) ==
    [kind |-> "device_updated", listener |-> listener, device |-> device.oid,
     name |-> device.name, changed |-> new_state]

\* NetworkController.add_listener_on_new_device(callable)
add_listener_on_new_device(callable) ==
    /\ Len(on_new_device) < MaxListeners
    /\ on_new_device' = Append(on_new_device, callable)
    /\ UNCHANGED <<devices, on_device_update, emitted, b_devices,
                   b_on_new_device, received>>
    /\ UNCHANGED mergeVars
    /\ UNCHANGED ioVars
    /\ UNCHANGED convertVars
    /\ UNCHANGED lifecycleVars
    /\ UNCHANGED loopVars
    /\ UNCHANGED commandVars

\* NetworkController.add_listener_on_device_update(callable)
add_listener_on_device_update(callable) ==
    /\ Len(on_device_update) < MaxListeners
    /\ on_device_update' = Append(on_device_update, callable)
    /\ UNCHANGED <<devices, on_new_device, emitted, b_devices,
                   b_on_new_device, received>>
    /\ UNCHANGED mergeVars
    /\ UNCHANGED ioVars
    /\ UNCHANGED convertVars
    /\ UNCHANGED lifecycleVars
    /\ UNCHANGED loopVars
    /\ UNCHANGED commandVars

\* async_on_status that notifies only when the merge reports new state
async_on_status_quiet(data, addr) ==
    LET device_update == Device_init(data, addr, NextOid) IN
    /\ received < MaxPackets
    /\ received' = received + 1
    /\ IF device_update.name \notin DOMAIN devices
       THEN /\ devices' = [n \in DOMAIN devices \cup {device_update.name} |->
                             IF n = device_update.name THEN device_update
                             ELSE devices[n]]
            /\ emitted' = [k \in 1..Len(on_new_device) |->
                             NewDeviceEvent(on_new_device[k], device_update)]
       ELSE LET merged == update(devices[device_update.name], device_update) IN
            /\ devices' = [devices EXCEPT ![device_update.name] = merged.dev]
            /\ emitted' = IF merged.ret
                          THEN [k \in 1..Len(on_device_update) |->
                                  DeviceUpdatedEvent(on_device_update[k],
                                                     merged.dev, merged.ret)]
                          ELSE <<>>
    /\ UNCHANGED <<on_new_device, on_device_update, b_devices,
                   b_on_new_device>>
    /\ UNCHANGED mergeVars
    /\ UNCHANGED ioVars
    /\ UNCHANGED convertVars
    /\ UNCHANGED lifecycleVars
    /\ UNCHANGED commandVars

\* NetworkController.async_on_status(data, addr), the task that
\* StatusProtocol.datagram_received schedules, up to its await of the listeners'
\* coroutines; the caller says what becomes of the loop's queue
async_on_status(data, addr) ==
    LET device_update == Device_init(data, addr, NextOid) IN
    /\ received < MaxPackets
    /\ received' = received + 1
    /\ IF device_update.name \notin DOMAIN devices
       THEN /\ devices' = [n \in DOMAIN devices \cup {device_update.name} |->
                             IF n = device_update.name THEN device_update
                             ELSE devices[n]]
            /\ emitted' = [k \in 1..Len(on_new_device) |->
                             NewDeviceEvent(on_new_device[k], device_update)]
       ELSE LET merged == update(devices[device_update.name], device_update) IN
            /\ devices' = [devices EXCEPT ![device_update.name] = merged.dev]
            /\ emitted' = [k \in 1..Len(on_device_update) |->
                             DeviceUpdatedEvent(on_device_update[k], merged.dev,
                                                merged.ret)]
    /\ UNCHANGED <<on_new_device, on_device_update, b_devices,
                   b_on_new_device>>
    /\ UNCHANGED mergeVars
    /\ UNCHANGED ioVars
    /\ UNCHANGED convertVars
    /\ UNCHANGED lifecycleVars
    /\ UNCHANGED commandVars

-----------------------------------------------------------------------------
(* Family B registry *)

MIN_VOL_DB_HALF == -255     \* MIN_VOL_DB = -127.5, counted in half dB

DiscoveryPackets ==
    {[name |-> n, ip_address |-> "10.0.0.4"] : n \in Names}
    \cup {[name |-> "Study", ip_address |-> "10.0.0.5"]}

\* minidsp Device.__init__(discovery_packet)
B_Device_init(discovery_packet, oid) ==
    [oid        |-> oid,
     name       |-> discovery_packet.name,
     ip_address |-> discovery_packet.ip_address,
     volume_db  |-> MIN_VOL_DB_HALF,
     muted      |-> TRUE,
     source     |-> None,
     preset     |-> 0,
     session    |-> "open",          \* aiohttp.ClientSession()
     websocket  |-> None]

\* minidsp NetworkController.add_listener_on_new_device(callable)
B_add_listener_on_new_device(callable) ==
    /\ Len(b_on_new_device) < MaxListeners
    /\ b_on_new_device' = Append(b_on_new_device, callable)
    /\ UNCHANGED <<devices, on_new_device, on_device_update, emitted,
                   b_devices, received>>
    /\ UNCHANGED mergeVars
    /\ UNCHANGED ioVars
    /\ UNCHANGED convertVars
    /\ UNCHANGED lifecycleVars
    /\ UNCHANGED loopVars
    /\ UNCHANGED commandVars

\* async_on_discovery_packet without the membership test of line 233
async_on_discovery_packet_always(packet) ==
    LET device == B_Device_init(packet, NextOid) IN
    /\ received < MaxPackets
    /\ received' = received + 1
    /\ b_devices' = [n \in DOMAIN b_devices \cup {packet.name} |->
                       IF n = packet.name THEN device ELSE b_devices[n]]
    /\ emitted' = [k \in 1..Len(b_on_new_device) |->
                       NewDeviceEvent(b_on_new_device[k], device)]
    /\ UNCHANGED <<devices, on_new_device, on_device_update,
                   b_on_new_device>>
    /\ UNCHANGED mergeVars
    /\ UNCHANGED ioVars
    /\ UNCHANGED convertVars
    /\ UNCHANGED lifecycleVars
    /\ UNCHANGED loopVars
    /\ UNCHANGED commandVars

\* async_on_discovery_packet that puts a known Device back to the state of a
\* new one
async_on_discovery_packet_resets(packet) ==
    /\ received < MaxPackets
    /\ received' = received + 1
    /\ IF packet.name \notin DOMAIN b_devices
       THEN LET device == B_Device_init(packet, NextOid) IN
            /\ b_devices' = [n \in DOMAIN b_devices \cup {packet.name} |->
                               IF n = packet.name THEN device ELSE b_devices[n]]
            /\ emitted' = [k \in 1..Len(b_on_new_device) |->
                               NewDeviceEvent(b_on_new_device[k], device)]
       ELSE /\ b_devices' = [b_devices EXCEPT
                               ![packet.name].volume_db = MIN_VOL_DB_HALF,
                               ![packet.name].muted = TRUE]
            /\ emitted' = <<>>
    /\ UNCHANGED <<devices, on_new_device, on_device_update,
                   b_on_new_device>>
    /\ UNCHANGED mergeVars
    /\ UNCHANGED ioVars
    /\ UNCHANGED convertVars
    /\ UNCHANGED lifecycleVars
    /\ UNCHANGED loopVars
    /\ UNCHANGED commandVars

\* DiscoveryProtocol.datagram_received ->
\* NetworkController.async_on_discovery_packet(packet)
async_on_discovery_packet(packet) ==
    /\ received < MaxPackets
    /\ received' = received + 1
    /\ IF packet.name \notin DOMAIN b_devices
       THEN LET device == B_Device_init(packet, NextOid) IN
                    /\ b_devices' = [n \in DOMAIN b_devices \cup {packet.name} |->
                               IF n = packet.name THEN device ELSE b_devices[n]]
            /\ emitted' = [k \in 1..Len(b_on_new_device) |->
                               NewDeviceEvent(b_on_new_device[k], device)]
       ELSE /\ emitted' = <<>>
            /\ UNCHANGED b_devices
    /\ UNCHANGED <<devices, on_new_device, on_device_update,
                   b_on_new_device>>
    /\ UNCHANGED mergeVars
    /\ UNCHANGED ioVars
    /\ UNCHANGED convertVars
    /\ UNCHANGED lifecycleVars
    /\ UNCHANGED loopVars
    /\ UNCHANGED commandVars

-----------------------------------------------------------------------------
(* Spec: both registries, from construction of the two NetworkControllers *)

NoDevice == [oid |-> 0, name |-> None]

Families == {"A", "B"}

\* the transports and the event loop before listen() and before any datagram
\* no status datagram of this name has been received yet
NoDatagram == <<[name |-> None], None>>

\* no request has been handed to a Device's aiohttp session yet
NoRequest == [device |-> None, field |-> None, value |-> None]

\* no transport is bound, no task is scheduled, hass.data is empty and
\* async_setup has not run
InitLoop ==
    /\ posted = NoRequest
    /\ status_transport = [f \in Families |-> None]
    /\ closes = [f \in Families |-> 0]
    /\ tasks = <<>>
    /\ last_received = [n \in Names |-> NoDatagram]
    /\ gathering = 0
    /\ hass_data = 0          \* 0: the key DATA_NETWORK_CONTROLLER is absent
    /\ controllers = <<>>
    /\ flows = <<>>
    /\ bus = "empty"

\* and _db_convert has not been called
InitIo ==
    /\ InitLoop
    /\ db_input = 0
    /\ retval = 0

Init ==
    /\ devices = <<>>
    /\ on_new_device = <<>>
    /\ on_device_update = <<>>
    /\ emitted = <<>>
    /\ b_devices = <<>>
    /\ b_on_new_device = <<>>
    /\ received = 0
    /\ target = NoDevice
    /\ snapshot = NoDevice
    /\ ret = FALSE
    /\ merges = 0
    /\ sessions = <<>>
    /\ wire = [n \in Names |-> <<>>]
    /\ raised = None
    /\ calls = 0
    /\ InitIo

Next ==
    \/ \E l \in Callables : add_listener_on_new_device(l)
    \/ \E l \in Callables : add_listener_on_device_update(l)
    \/ \E l \in Callables : B_add_listener_on_new_device(l)
    \/ \E d \in StatusDatagrams :
            async_on_status(d[1], d[2]) /\ UNCHANGED loopVars
    \/ \E packet \in DiscoveryPackets : async_on_discovery_packet(packet)

Spec == Init /\ [][Next]_vars

-----------------------------------------------------------------------------
(* SpecUpdate: Device.update as a function of its two arguments.  A caller  *)
(* holds a Family A Device (target) and merges freshly parsed Devices into  *)
(* it, whatever their names.                                                *)

UpdatePackets ==
    [name : Names, b307 : {0, 128}, b308 : {0, 2, 4}, b310 : {0, 195},
     tbl : {1, 2}]

UpdateAddrs == {"10.0.0.2", "10.0.0.3"}

\* the Devices a status datagram can parse to
Snapshots == {Device_init(p, a, 2) : p \in UpdatePackets, a \in UpdateAddrs}

\* the Devices a registry can hold: parsed earlier, some commands sent since
Targets ==
    {[Device_init(p, a, 1) EXCEPT !.num_packets = c[1], !.num_commands = c[2]] :
        p \in UpdatePackets, a \in UpdateAddrs, c \in {<<0, 0>>, <<6, 3>>}}

\* target.update(device_update)
call_update(device_update) ==
    LET merged == update(target, device_update) IN
    /\ merges < MaxMerges
    /\ merges' = merges + 1
    /\ target' = merged.dev
    /\ ret' = merged.ret
    /\ snapshot' = device_update
    /\ UNCHANGED registryVars
    /\ UNCHANGED commandVars
    /\ UNCHANGED ioVars
    /\ UNCHANGED convertVars
    /\ UNCHANGED lifecycleVars
    /\ UNCHANGED loopVars

InitUpdate ==
    /\ devices = <<>>
    /\ on_new_device = <<>>
    /\ on_device_update = <<>>
    /\ emitted = <<>>
    /\ b_devices = <<>>
    /\ b_on_new_device = <<>>
    /\ received = 0
    /\ target \in Targets
    /\ snapshot = NoDevice
    /\ ret = FALSE
    /\ merges = 0
    /\ sessions = <<>>
    /\ wire = [n \in Names |-> <<>>]
    /\ raised = None
    /\ calls = 0
    /\ InitIo

NextUpdate == \E device_update \in Snapshots : call_update(device_update)

SpecUpdate == InitUpdate /\ [][NextUpdate]_vars

-----------------------------------------------------------------------------
(* Family A command encoder.  A command buffer is bytearray(142); bytes 14 to *)
(* 141 are never written nor summed, so the buffer is its first 14 bytes:     *)
(* byte i of the buffer is element i + 1 of the sequence.                     *)

MAX_VOLUME_DB == -10
MAX_VOLUME_INT == 175

Bit(x, j) == (x \div (2 ^ j)) % 2

ToggleBit(x, j) == IF Bit(x, j) = 1 THEN x - 2 ^ j ELSE x + 2 ^ j

\* a ^ b for two bytes
Xor8(a, b) ==
      ((Bit(a, 0) + Bit(b, 0)) % 2)
    + ((Bit(a, 1) + Bit(b, 1)) % 2) * 2
    + ((Bit(a, 2) + Bit(b, 2)) % 2) * 4
    + ((Bit(a, 3) + Bit(b, 3)) % 2) * 8
    + ((Bit(a, 4) + Bit(b, 4)) % 2) * 16
    + ((Bit(a, 5) + Bit(b, 5)) % 2) * 32
    + ((Bit(a, 6) + Bit(b, 6)) % 2) * 64
    + ((Bit(a, 7) + Bit(b, 7)) % 2) * 128

\* one pass of the inner loop of _crc16 (lines 42-46).  The code lets crc grow
\* past 16 bits and masks at the end; no step moves a bit downwards, so the low
\* 16 bits kept here are the low 16 bits of the code's value.
CrcShift(crc) ==
    IF crc >= 32768                                       \* crc & 0x8000
    THEN ToggleBit(ToggleBit(ToggleBit((crc * 2) % 65536, 0), 5), 12)  \* ^ 0x1021
    ELSE crc * 2

\* one pass of the outer loop of _crc16: crc ^= byte << 8, then eight shifts
CrcByte(crc, byte) ==
    LET c0 == Xor8(crc \div 256, byte) * 256 + (crc % 256)
    IN  CrcShift(CrcShift(CrcShift(CrcShift(
        CrcShift(CrcShift(CrcShift(CrcShift(c0))))))))

RECURSIVE CrcFold(_, _, _)
CrcFold(crc, data, i) ==
    IF i > Len(data) \/ crc < 0 THEN crc     \* crc is never negative
    ELSE CrcFold(CrcByte(crc, data[i]), data, i + 1)

\* _crc16(data)
crc16(data) == CrcFold(65535, data, 1)

\* math.ceil(math.log(n, 2)) for an integer n >= 1
CeilLog2(n) == CHOOSE k \in 0..20 : 2 ^ k >= n /\ (k = 0 \/ 2 ^ (k - 1) < n)

\* math.fabs(v)
Abs(v) == IF v < 0 THEN -v ELSE v

\* 256 >> count with a negative count raises ValueError out of every enclosing
\* call of _db_convert: the term that stands for it keeps any sum of terms
\* negative, and a negative result of db_convert is that exception
ValueErrorCode == -16777216

\* _db_convert whose shift count is math.ceil(math.log(db_abs, 2))
RECURSIVE db_convert_above_log_only(_, _)
db_convert_above_log_only(known, db_value) ==
    CASE Abs(db_value) \in DOMAIN known -> known[Abs(db_value)]
      [] Abs(db_value) = 0 -> 0
      [] Abs(db_value) = 4 -> 16128
      [] Abs(db_value) # 0 /\ CeilLog2(Abs(db_value)) < 3 -> ValueErrorCode
      [] OTHER -> (256 \div (2 ^ (CeilLog2(Abs(db_value)) - 3)))
                  + db_convert_above_log_only(known, Abs(db_value) - 4)

\* _db_convert(db_value), db_value counted in eighths of a dB (0.5 dB = 4), so
\* math.ceil(1 + math.log(db_abs, 2)) is CeilLog2(eighths) - 2.  known holds
\* the results of calls already made, so that the recursion of line 58 stops
\* at a level whose result is at hand
RECURSIVE db_convert_above(_, _)
db_convert_above(known, db_value) ==
    CASE Abs(db_value) \in DOMAIN known -> known[Abs(db_value)]
      [] Abs(db_value) = 0 -> 0
      [] Abs(db_value) = 4 -> 16128                                \* 0x3F00
      [] Abs(db_value) # 0 /\ CeilLog2(Abs(db_value)) < 2 -> ValueErrorCode
      [] OTHER -> (256 \div (2 ^ (CeilLog2(Abs(db_value)) - 2)))
                  + db_convert_above(known, Abs(db_value) - 4)

\* _db_convert(db_value)
db_convert(db_value) == db_convert_above(<<>>, db_value)

\* _db_convert(db_value) for every level of at most MaxDbEighths eighths of a
\* dB, held as a table so that it is evaluated once, a quarter of the levels
\* at a time
DbQuarter(known, k) ==
    [[db_abs \in 0..((k * MaxDbEighths) \div 4) |->
         db_convert_above(known, db_abs)] EXCEPT ![0] = 0]

DbTable1 == DbQuarter(<<>>, 1)
DbTable2 == DbQuarter(DbTable1, 2)
DbTable3 == DbQuarter(DbTable2, 3)
DbTable == DbQuarter(DbTable3, 4)

\* round(n / d), as Python rounds: to the nearest integer, ties to the even one
RoundHalfEven(n, d) ==
    LET q == n \div d
        r == n % d
    IN  IF 2 * r < d THEN q
        ELSE IF 2 * r > d THEN q + 1
        ELSE IF q % 2 = 0 THEN q ELSE q + 1

\* bytearray(142)
NewCommand == [i \in 1..14 |-> 0]

SetByte(command, i, v) == [command EXCEPT ![i + 1] = v]

\* lines 262-264 of prepare_command: the checksum stored in bytes 12 and 13
StoreCrc(command, crc) ==
    [command EXCEPT ![13] = (crc \div 256) % 256, ![14] = crc % 256]

\* prepare_command without the resets of lines 252-255
prepare_command_no_reset(device, command) ==
    LET c5 == [command EXCEPT ![1] = 68, ![2] = 114,
                              ![3] = (device.num_packets \div 256) % 256,
                              ![4] = device.num_packets % 256,
                              ![5] = (device.num_commands \div 256) % 256,
                              ![6] = device.num_commands % 256]
    IN  [device  |-> device,
         command |-> StoreCrc(c5, crc16(SubSeq(c5, 1, 12)))]

\* prepare_command that computes the checksum before it writes the counters
prepare_command_stale_crc(device, command) ==
    LET num_packets == IF device.num_packets > 65535 THEN 0 ELSE device.num_packets
        num_commands == IF device.num_commands > 65535 THEN 0
                        ELSE device.num_commands
        c1 == [command EXCEPT ![1] = 68, ![2] = 114]
        c5 == [c1 EXCEPT ![3] = (num_packets \div 256) % 256,
                         ![4] = num_packets % 256,
                         ![5] = (num_commands \div 256) % 256,
                         ![6] = num_commands % 256]
    IN  [device  |-> [device EXCEPT !.num_packets = num_packets,
                                    !.num_commands = num_commands],
         command |-> StoreCrc(c5, crc16(SubSeq(c1, 1, 12)))]

\* SendCommandProtocol.prepare_command(): the Device and the buffer afterwards
prepare_command(device, command) ==
    LET num_packets == IF device.num_packets > 65535 THEN 0 ELSE device.num_packets
        num_commands == IF device.num_commands > 65535 THEN 0
                        ELSE device.num_commands
        c5 == [command EXCEPT ![1] = 68, ![2] = 114,              \* 0x44 0x72
                              ![3] = (num_packets \div 256) % 256,
                              ![4] = num_packets % 256,
                              ![5] = (num_commands \div 256) % 256,
                              ![6] = num_commands % 256]
    IN  [device  |-> [device EXCEPT !.num_packets = num_packets,
                                    !.num_commands = num_commands],
         command |-> StoreCrc(c5, crc16(SubSeq(c5, 1, 12)))]

\* one pass of the loop of connection_made (lines 269-271): p is what
\* prepare_command returned; t holds the Device, the buffer and the datagrams
\* handed to sendto so far
PassWith(t, p) ==
    [device  |-> [p.device EXCEPT !.num_packets = @ + 1],
     command |-> p.command,
     sent    |-> Append(t.sent, p.command)]

Pass(t) == PassWith(t, prepare_command(t.device, t.command))

\* the loop of connection_made (line 268) with times passes left
RECURSIVE Transmit(_, _)
Transmit(t, times) == IF times <= 0 THEN t ELSE Transmit(Pass(t), times - 1)

-----------------------------------------------------------------------------
(* Family A command transport: one session per async_send_command call.     *)
(*   connecting  create_datagram_endpoint awaited, connection_made pending  *)
(*   closing     connection_made has run and asked the transport to close   *)
(*   closed      connection_lost has run and resolved on_close              *)

Session(d, command, times) ==
    [device |-> d, remote_addr |-> devices[d].ip_address, command |-> command,
     times |-> times, state |-> "connecting"]

RemoveAt(seq, i) == SubSeq(seq, 1, i - 1) \o SubSeq(seq, i + 1, Len(seq))

\* a control call that raises exc before it reaches the transport
Raise(exc) ==
    /\ calls' = calls + 1
    /\ raised' = exc
    /\ UNCHANGED <<sessions, wire>>
    /\ UNCHANGED registryVars
    /\ UNCHANGED mergeVars
    /\ UNCHANGED ioVars
    /\ UNCHANGED convertVars
    /\ UNCHANGED lifecycleVars
    /\ UNCHANGED loopVars

\* Device.async_send_command(command, times), up to its first suspension
async_send_command(d, command, times) ==
    /\ calls' = calls + 1
    /\ sessions' = Append(sessions, Session(d, command, times))
    /\ UNCHANGED <<wire, raised>>
    /\ UNCHANGED registryVars
    /\ UNCHANGED mergeVars
    /\ UNCHANGED ioVars
    /\ UNCHANGED convertVars
    /\ UNCHANGED lifecycleVars
    /\ UNCHANGED loopVars

\* loop.create_datagram_endpoint raises (no route, no socket): the call of
\* session i ends with OSError before any protocol callback
create_datagram_endpoint_fails(i) ==
    /\ sessions[i].state = "connecting"
    /\ sessions' = RemoveAt(sessions, i)
    /\ raised' = "OSError"
    /\ UNCHANGED <<wire, calls>>
    /\ UNCHANGED registryVars
    /\ UNCHANGED mergeVars
    /\ UNCHANGED ioVars
    /\ UNCHANGED convertVars
    /\ UNCHANGED lifecycleVars
    /\ UNCHANGED loopVars

\* the protocol object of session i when connection_made is called
Protocol(i) ==
    [device |-> devices[sessions[i].device], command |-> sessions[i].command,
     sent |-> <<>>]

\* lines 272-273 with num_commands shared by the Devices of the registry
AfterTransmit_shared_counter(i, t, step) ==
    /\ sessions[i].state = "connecting"
    /\ devices' = [e \in DOMAIN devices |->
                     IF e = sessions[i].device
                     THEN [t.device EXCEPT !.num_commands = @ + step]
                     ELSE [devices[e] EXCEPT !.num_commands = @ + step]]
    /\ wire' = [wire EXCEPT ![sessions[i].device] = t.sent]
    /\ sessions' = [sessions EXCEPT ![i].state = "closing",
                                    ![i].command = t.command]
    /\ UNCHANGED <<on_new_device, on_device_update, emitted, b_devices,
                   b_on_new_device, received, raised, calls>>
    /\ UNCHANGED mergeVars
    /\ UNCHANGED ioVars
    /\ UNCHANGED convertVars
    /\ UNCHANGED lifecycleVars
    /\ UNCHANGED loopVars

\* lines 272-273 of connection_made once the loop has left t: num_commands
\* grows by step, and the transport is asked to close
AfterTransmit(i, t, step) ==
    /\ sessions[i].state = "connecting"
    /\ devices' = [devices EXCEPT ![sessions[i].device] =
                     [t.device EXCEPT !.num_commands = @ + step]]
    /\ wire' = [wire EXCEPT ![sessions[i].device] = t.sent]
    /\ sessions' = [sessions EXCEPT ![i].state = "closing",
                                    ![i].command = t.command]
    /\ UNCHANGED <<on_new_device, on_device_update, emitted, b_devices,
                   b_on_new_device, received, raised, calls>>
    /\ UNCHANGED mergeVars
    /\ UNCHANGED ioVars
    /\ UNCHANGED convertVars
    /\ UNCHANGED lifecycleVars
    /\ UNCHANGED loopVars

\* the loop sending the buffer of its first pass again, num_packets counted once
Repeat(t, times) ==
    [t EXCEPT !.sent = [k \in 1..times |-> t.command]]

\* connection_made that counts one packet per command instead of one per datagram
connection_made_counts_once(i) ==
    AfterTransmit(i, Repeat(Pass(Protocol(i)), sessions[i].times), 1)

\* connection_made without line 272 (num_commands += 1)
connection_made_same_command(i) ==
    AfterTransmit(i, Transmit(Protocol(i), sessions[i].times), 0)

\* SendCommandProtocol.connection_made(transport) of session i
connection_made(i) ==
    AfterTransmit(i, Transmit(Protocol(i), sessions[i].times), 1)

\* SendCommandProtocol.connection_lost(exc) of session i
connection_lost(i) ==
    /\ sessions[i].state = "closing"
    /\ sessions' = [sessions EXCEPT ![i].state = "closed"]
    /\ UNCHANGED <<wire, raised, calls>>
    /\ UNCHANGED registryVars
    /\ UNCHANGED mergeVars
    /\ UNCHANGED ioVars
    /\ UNCHANGED convertVars
    /\ UNCHANGED lifecycleVars
    /\ UNCHANGED loopVars

\* async_send_command that returns once the transport was asked to close,
\* without awaiting on_close
send_command_returns_early(i) ==
    /\ sessions[i].state \in {"closing", "closed"}
    /\ sessions' = RemoveAt(sessions, i)
    /\ raised' = None
    /\ UNCHANGED <<wire, calls>>
    /\ UNCHANGED registryVars
    /\ UNCHANGED mergeVars
    /\ UNCHANGED ioVars
    /\ UNCHANGED convertVars
    /\ UNCHANGED lifecycleVars
    /\ UNCHANGED loopVars

\* async_send_command resumes after on_close, closes the transport and returns
send_command_returns(i) ==
    /\ sessions[i].state = "closed"
    /\ sessions' = RemoveAt(sessions, i)
    /\ raised' = None
    /\ UNCHANGED <<wire, calls>>
    /\ UNCHANGED registryVars
    /\ UNCHANGED mergeVars
    /\ UNCHANGED ioVars
    /\ UNCHANGED convertVars
    /\ UNCHANGED lifecycleVars
    /\ UNCHANGED loopVars

-----------------------------------------------------------------------------
(* Family A control operations of Device d, each up to its first suspension *)

BoolByte(b) == IF b THEN 1 ELSE 0

\* Device.async_set_power_state(power_state)
async_set_power_state(d, power_state) ==
    async_send_command(d,
        SetByte(SetByte(NewCommand, 6, BoolByte(power_state)), 7, 1), 2)

\* Device.async_turn_on()
async_turn_on(d) == async_set_power_state(d, TRUE)

\* Device.async_turn_off()
async_turn_off(d) == async_set_power_state(d, FALSE)

\* Device.async_toggle_power()
async_toggle_power(d) == async_set_power_state(d, ~devices[d].power)

\* async_mute that records the requested state on the Device as it sends
async_mute_records(d, mute_state) ==
    /\ calls' = calls + 1
    /\ sessions' = Append(sessions,
            Session(d, SetByte(SetByte(NewCommand, 6, BoolByte(mute_state)), 7, 7), 2))
    /\ devices' = [devices EXCEPT ![d].muted = mute_state]
    /\ UNCHANGED <<wire, raised>>
    /\ UNCHANGED <<on_new_device, on_device_update, emitted, b_devices,
                   b_on_new_device, received>>
    /\ UNCHANGED mergeVars
    /\ UNCHANGED ioVars
    /\ UNCHANGED convertVars
    /\ UNCHANGED lifecycleVars
    /\ UNCHANGED loopVars

\* Device.async_mute(mute_state)
async_mute(d, mute_state) ==
    async_send_command(d,
        SetByte(SetByte(NewCommand, 6, BoolByte(mute_state)), 7, 7), 2)

\* the buffer async_set_volume_db builds for the 16-bit value volume
VolumeCommand(volume) ==
    SetByte(SetByte(SetByte(SetByte(NewCommand, 6, 0), 7, 4),
                    8, (volume \div 256) % 256), 9, volume % 256)

\* the 16-bit value async_set_volume_db computes for volume_db (in eighths
\* of a dB) after its clamp, or ValueErrorCode
VolumeValue(volume_db) ==
    LET code == DbTable[Abs(volume_db)] IN
    IF code < 0 THEN ValueErrorCode
    ELSE IF volume_db < 0 /\ Bit(code, 15) = 0 THEN code + 32768   \* |= 0x8000
    ELSE code

\* async_set_volume_db that sends nothing when the value equals the value of
\* the recorded volume
async_set_volume_db_skips_equal(d, volume_db) ==
    LET clamped == IF volume_db > MAX_VOLUME_DB * 8 THEN MAX_VOLUME_DB * 8
                   ELSE volume_db
        volume == VolumeValue(clamped)
    IN  IF volume < 0 THEN Raise("ValueError")
        ELSE IF volume = VolumeValue((devices[d].volume - 195) * 4)
        THEN /\ calls' = calls + 1
             /\ UNCHANGED <<sessions, wire, raised>>
             /\ UNCHANGED registryVars
             /\ UNCHANGED mergeVars
             /\ UNCHANGED ioVars
             /\ UNCHANGED convertVars
             /\ UNCHANGED lifecycleVars
             /\ UNCHANGED loopVars
        ELSE async_send_command(d, VolumeCommand(volume), 2)

\* async_set_volume_db without the clamp of lines 187-188
async_set_volume_db_unclamped(d, volume_db) ==
    LET volume == VolumeValue(volume_db)
    IN  IF volume < 0 THEN Raise("ValueError")
        ELSE async_send_command(d, VolumeCommand(volume), 2)

\* Device.async_set_volume_db(volume_db), volume_db in eighths of a dB
async_set_volume_db(d, volume_db) ==
    LET clamped == IF volume_db > MAX_VOLUME_DB * 8 THEN MAX_VOLUME_DB * 8
                   ELSE volume_db
        volume == VolumeValue(clamped)
    IN  IF volume < 0 THEN Raise("ValueError")
        ELSE async_send_command(d, VolumeCommand(volume), 2)

\* Device.async_set_volume_int(volume): (volume - 195) / 2.0 dB
async_set_volume_int(d, volume) ==
    async_set_volume_db(d,
        ((IF volume > MAX_VOLUME_INT THEN MAX_VOLUME_INT ELSE volume) - 195) * 4)

\* Device.async_set_volume_float(volume_float), volume_float in thousandths
async_set_volume_float(d, volume_float) ==
    LET clamped == IF volume_float > 1000 THEN 1000
                   ELSE IF volume_float < 0 THEN 0 ELSE volume_float
    IN  async_set_volume_int(d, RoundHalfEven(clamped * 255, 1000))

\* Device.async_volume_up()
async_volume_up(d) == async_set_volume_int(d, devices[d].volume + 1)

\* Device.async_volume_down()
async_volume_down(d) == async_set_volume_int(d, devices[d].volume - 1)

NoSource == Source(None, -1, 0, FALSE)       \* new_source = None

\* the first entry of self.sources named new_source_name (lines 205-209)
FindSource(self, new_source_name) ==
    LET found == {i \in SlotIndexes : self.sources[i].name = new_source_name}
    IN  IF found = {} THEN NoSource
        ELSE self.sources[CHOOSE i \in found : \A j \in found : i <= j]

\* the buffer of a select command whose byte 9 is the low byte of out_val for
\* every index
SourceCommand_unshifted(index) ==
    LET out_val == 16384 + index * 32
    IN  SetByte(SetByte(SetByte(SetByte(NewCommand, 6, 0), 7, 5),
                        8, (out_val \div 256) % 256),
                9, out_val % 256)

\* the buffer async_select_source builds for the source of that index
SourceCommand(index) ==
    \* 0x4000 | (index << 5): index << 5 stays below 0x4000 for an index of the
    \* fifteen-entry list, so the two have no bit in common
    LET out_val == 16384 + index * 32
        low == out_val % 256
    IN  SetByte(SetByte(SetByte(SetByte(NewCommand, 6, 0), 7, 5),
                        8, (out_val \div 256) % 256),
                9, IF index > 7 THEN low \div 2 ELSE low)

\* Device.async_select_source(new_source_name)
async_select_source(d, new_source_name) ==
    LET new_source == FindSource(devices[d], new_source_name) IN
    IF new_source = NoSource THEN Raise("ValueError")
    ELSE async_send_command(d, SourceCommand(new_source.index), 2)

-----------------------------------------------------------------------------
(* SpecCmd: the control operations of one registered Family A Device, one   *)
(* call at a time.  SpecConc: calls overlapping on the event loop while the  *)
(* status listener keeps receiving.                                          *)

\* status contents of the Devices that are sent commands
CmdContents ==
    { [b307 |-> 128, b308 |-> 0, b310 |-> 175, tbl |-> 1],    \* on, -10 dB
      [b307 |-> 0,   b308 |-> 6, b310 |-> 115, tbl |-> 2],    \* off, muted, -40 dB
      [b307 |-> 128, b308 |-> 4, b310 |-> 0,   tbl |-> 2] }   \* on, -97.5 dB

\* (num_packets, num_commands) after 0, 32767 and 65535 commands sent twice each
CounterStarts == {<<0, 0>>, <<65534, 32767>>, <<65534, 65535>>}

\* the registries after one status datagram from "Living Room" and some commands
Registries(contents, starts) ==
    {[n \in {"Living Room"} |->
        [Device_init(StatusPacket(n, c), "10.0.0.2", 1)
            EXCEPT !.num_packets = k[1], !.num_commands = k[2]]] :
        c \in contents, k \in starts}

CmdDevices == Registries(CmdContents, CounterStarts)

\* the registry of SpecConc: one Device, both counters about to wrap
ConcDevices ==
    Registries({c \in CmdContents : c.b310 = 175},
               {k \in CounterStarts : k[1] + 2 > 65535 /\ k[2] + 1 > 65535})

\* the status datagrams received while commands are sent
CmdDatagrams ==
    {<<StatusPacket("Living Room", c), "10.0.0.2">> :
        c \in {k \in CmdContents : k.b310 = 115}}

\* arguments of the setters: dB in eighths, floats in thousandths
DbInputs == {-780, -84, -83, -82, -80, -76, 40}
IntInputs == {0, 175, 176, 255}
FloatInputs == {-500, 450, 500, 686, 1500}
SourceInputs == {"Phono", "Line 1", "USB", "Air", "Tuner"}
TimesInputs == {1, 3}

\* a caller may start a call: fewer than n calls are suspended
CanCall(n) == calls < MaxCommands /\ Len(sessions) < n

InitCommands(registries) ==
    /\ devices \in registries
    /\ on_new_device = <<>>
    /\ on_device_update = <<>>
    /\ emitted = <<>>
    /\ b_devices = <<>>
    /\ b_on_new_device = <<>>
    /\ received = 1
    /\ target = NoDevice
    /\ snapshot = NoDevice
    /\ ret = FALSE
    /\ merges = 0
    /\ sessions = <<>>
    /\ wire = [n \in Names |-> <<>>]
    /\ raised = None
    /\ calls = 0
    /\ InitIo

InitCmd == InitCommands(CmdDevices)

Transport ==
    \/ \E i \in 1..Len(sessions) : create_datagram_endpoint_fails(i)
    \/ \E i \in 1..Len(sessions) : connection_made(i)
    \/ \E i \in 1..Len(sessions) : connection_lost(i)
    \/ \E i \in 1..Len(sessions) : send_command_returns(i)

NextCmd ==
    \/ \E d \in DOMAIN devices : CanCall(1) /\ async_turn_on(d)
    \/ \E d \in DOMAIN devices : CanCall(1) /\ async_turn_off(d)
    \/ \E d \in DOMAIN devices : CanCall(1) /\ async_toggle_power(d)
    \/ \E d \in DOMAIN devices, m \in BOOLEAN : CanCall(1) /\ async_mute(d, m)
    \/ \E d \in DOMAIN devices, v \in DbInputs :
            CanCall(1) /\ async_set_volume_db(d, v)
    \/ \E d \in DOMAIN devices, v \in IntInputs :
            CanCall(1) /\ async_set_volume_int(d, v)
    \/ \E d \in DOMAIN devices, v \in FloatInputs :
            CanCall(1) /\ async_set_volume_float(d, v)
    \/ \E d \in DOMAIN devices : CanCall(1) /\ async_volume_up(d)
    \/ \E d \in DOMAIN devices : CanCall(1) /\ async_volume_down(d)
    \/ \E d \in DOMAIN devices, n \in SourceInputs :
            CanCall(1) /\ async_select_source(d, n)
    \/ \E d \in DOMAIN devices, t \in TimesInputs :
            CanCall(1) /\ async_send_command(d, NewCommand, t)
    \/ Transport

SpecCmd == InitCmd /\ [][NextCmd]_vars

InitConc == InitCommands(ConcDevices)

NextConc ==
    \/ \E d \in DOMAIN devices : CanCall(MaxInflight) /\ async_turn_on(d)
    \/ \E d \in DOMAIN devices : CanCall(MaxInflight) /\ async_volume_up(d)
    \/ \E d \in DOMAIN devices :
            CanCall(MaxInflight) /\ async_send_command(d, NewCommand, 3)
    \/ \E d \in CmdDatagrams :
            async_on_status(d[1], d[2]) /\ UNCHANGED loopVars
    \/ Transport

SpecConc == InitConc /\ [][NextConc]_vars

\* SpecCmdFair: the calls of SpecCmd on one Device, on an event loop that runs
\* every callback it has scheduled and resumes every coroutine whose future is
\* resolved: a session that can take a transport step takes one
SpecCmdFair == InitConc /\ [][NextCmd]_vars /\ WF_vars(Transport)

-----------------------------------------------------------------------------
(* Family B Device: status deltas and control operations *)

MAX_VOL_DB_HALF == 0        \* MAX_VOL_DB = 0, counted in half dB

\* Device.sources
B_sources == {"Analog", "Toslink"}

\* update that takes a message without "master" for an empty status
B_update_resets(self, update_json) ==
    IF "master" \notin DOMAIN update_json
    THEN [self EXCEPT !.source = None, !.muted = FALSE, !.preset = 0]
    ELSE LET master == update_json["master"] IN
         [self EXCEPT
            !.source = IF "source" \in DOMAIN master THEN master["source"] ELSE @,
            !.muted = IF "mute" \in DOMAIN master THEN master["mute"] ELSE @,
            !.volume_db = IF "volume" \in DOMAIN master THEN master["volume"]
                          ELSE @,
            !.preset = IF "preset" \in DOMAIN master THEN master["preset"] ELSE @]

\* minidsp Device.update(update_json): update_json is the parsed message, a function
\* of the keys it has; master["volume"] is counted in half dB
B_update(self, update_json) ==
    IF "master" \notin DOMAIN update_json THEN self
    ELSE LET master == update_json["master"] IN
         [self EXCEPT
            !.source = IF "source" \in DOMAIN master THEN master["source"] ELSE @,
            !.muted = IF "mute" \in DOMAIN master THEN master["mute"] ELSE @,
            !.volume_db = IF "volume" \in DOMAIN master THEN master["volume"]
                          ELSE @,
            !.preset = IF "preset" \in DOMAIN master THEN master["preset"] ELSE @]

\* self.update(message) for a message of the Device's websocket (line 59)
B_call_update(d, update_json) ==
    /\ merges < MaxMerges
    /\ merges' = merges + 1
    /\ b_devices' = [b_devices EXCEPT ![d] = B_update(@, update_json)]
    /\ UNCHANGED <<devices, on_new_device, on_device_update, emitted,
                   b_on_new_device, received>>
    /\ UNCHANGED <<target, snapshot, ret>>
    /\ UNCHANGED ioVars
    /\ UNCHANGED convertVars
    /\ UNCHANGED lifecycleVars
    /\ UNCHANGED loopVars
    /\ UNCHANGED commandVars

\* self.session.post(self.config_url, json={"master_status": {field: value}})
\* as the last statement of a setter that leaves the Device as self
session_post(d, self, field, value) ==
    /\ calls' = calls + 1
    /\ raised' = None
    /\ posted' = [device |-> d, field |-> field, value |-> value]
    /\ b_devices' = [b_devices EXCEPT ![d] = self]
    /\ UNCHANGED <<devices, on_new_device, on_device_update, emitted,
                   b_on_new_device, received>>
    /\ UNCHANGED <<sessions, wire>>
    /\ UNCHANGED <<status_transport, closes>>
    /\ UNCHANGED convertVars
    /\ UNCHANGED lifecycleVars
    /\ UNCHANGED mergeVars
    /\ UNCHANGED loopVars

\* minidsp Device.async_mute(mute_state)
B_async_mute(d, mute_state) ==
    session_post(d, b_devices[d], "mute", mute_state)

\* minidsp Device.async_set_volume_db(volume_db), volume_db in half dB
B_async_set_volume_db(d, volume_db) ==
    LET clamped == IF volume_db < MIN_VOL_DB_HALF THEN MIN_VOL_DB_HALF
                   ELSE IF volume_db > MAX_VOL_DB_HALF THEN MAX_VOL_DB_HALF
                   ELSE volume_db
    IN  session_post(d, [b_devices[d] EXCEPT !.volume_db = clamped],
                     "volume", clamped)

\* minidsp Device.async_volume_up()
B_async_volume_up(d) == B_async_set_volume_db(d, b_devices[d].volume_db + 1)

\* minidsp Device.async_volume_down()
B_async_volume_down(d) == B_async_set_volume_db(d, b_devices[d].volume_db - 1)

\* minidsp Device.async_set_volume_float(volume_float), volume_float in
\* thousandths: round(volume_float * vol_range * 2) / 2 + MIN_VOL_DB
B_async_set_volume_float(d, volume_float) ==
    LET clamped == IF volume_float > 1000 THEN 1000
                   ELSE IF volume_float < 0 THEN 0 ELSE volume_float
        vol_range == MAX_VOL_DB_HALF - MIN_VOL_DB_HALF
    IN  B_async_set_volume_db(d,
            RoundHalfEven(clamped * vol_range, 1000) + MIN_VOL_DB_HALF)

\* async_select_source that records the name before it tests it
B_async_select_source_records_first(d, new_source_name) ==
    IF new_source_name \notin B_sources
    THEN /\ calls' = calls + 1
         /\ raised' = "ValueError"
         /\ b_devices' = [b_devices EXCEPT ![d].source = new_source_name]
         /\ UNCHANGED <<devices, on_new_device, on_device_update, emitted,
                        b_on_new_device, received>>
         /\ UNCHANGED <<sessions, wire>>
         /\ UNCHANGED mergeVars
         /\ UNCHANGED ioVars
         /\ UNCHANGED convertVars
         /\ UNCHANGED lifecycleVars
         /\ UNCHANGED loopVars
    ELSE session_post(d, [b_devices[d] EXCEPT !.source = new_source_name],
                      "source", new_source_name)

\* minidsp Device.async_select_source(new_source_name)
B_async_select_source(d, new_source_name) ==
    IF new_source_name \notin B_sources THEN Raise("ValueError")
    ELSE session_post(d, [b_devices[d] EXCEPT !.source = new_source_name],
                      "source", new_source_name)

\* minidsp Device.async_select_preset(preset)
B_async_select_preset(d, preset) ==
    IF preset < 0 \/ preset > 4 THEN Raise("ValueError")
    ELSE session_post(d, [b_devices[d] EXCEPT !.preset = preset],
                      "preset", preset)

-----------------------------------------------------------------------------
(* SpecB: the Family B registry with the Devices it holds: discovery       *)
(* packets, messages of the Devices' websockets and control calls, in any    *)
(* order.                                                                    *)

\* parsed websocket messages: volumes in half dB (-20 is -10 dB, 6 is 3 dB)
Deltas ==
    { [input_levels |-> <<>>],
      [master |-> [source |-> "Toslink"]],
      [master |-> [mute |-> FALSE, volume |-> -20]],
      [master |-> [volume |-> 6]],
      [master |-> [preset |-> 2, source |-> "Usb"]] }

\* arguments of the Family B setters: dB in half dB, floats in thousandths
B_DbInputs == {-300, 1}
B_FloatInputs == {500, 1500}
B_SourceInputs == {"Toslink", "Usb"}
B_PresetInputs == {-1, 4, 5}

MaxPosts == 2                  \* control calls made on Family B Devices

\* the Devices that are sent messages and control calls
Controlled == DOMAIN b_devices \cap {"Living Room"}

\* a caller may make a control call
B_CanCall == calls < MaxPosts

NextB ==
    \/ \E l \in Callables : B_add_listener_on_new_device(l)
    \/ \E packet \in DiscoveryPackets : async_on_discovery_packet(packet)
    \/ \E d \in Controlled, u \in Deltas : B_call_update(d, u)
    \/ \E d \in Controlled : B_CanCall /\ B_async_mute(d, FALSE)
    \/ \E d \in Controlled, v \in B_DbInputs :
            B_CanCall /\ B_async_set_volume_db(d, v)
    \/ \E d \in Controlled, v \in B_FloatInputs :
            B_CanCall /\ B_async_set_volume_float(d, v)
    \/ \E d \in Controlled : B_CanCall /\ B_async_volume_up(d)
    \/ \E d \in Controlled : B_CanCall /\ B_async_volume_down(d)
    \/ \E d \in Controlled, n \in B_SourceInputs :
            B_CanCall /\ B_async_select_source(d, n)
    \/ \E d \in Controlled, p \in B_PresetInputs :
            B_CanCall /\ B_async_select_preset(d, p)

SpecB == Init /\ [][NextB]_vars

-----------------------------------------------------------------------------
(* SpecListen: the listeners of both families: NetworkController.listen and *)
(* close, the datagrams their sockets deliver, well formed or not, and the  *)
(* websocket and session of a Family B Device.                              *)

MaxCloses == 2                 \* close calls in one behaviour

\* Device.__init__(status_data, addr) raises this exception, or None: byte 310
\* is the last byte it reads, and it decodes the name bytes
Device_init_raises(status_data) ==
    IF status_data.len < 311 THEN "IndexError"
    ELSE IF ~status_data.utf8 THEN "UnicodeDecodeError"
    ELSE None

\* the status contents of the buffers of SpecListen
ListenContents == {c \in StatusContents : c.tbl = 1}

\* status buffers, as their length, whether their name bytes are UTF-8, and
\* the fields their bytes hold: whole ones, one cut after byte 309, one whose
\* name does not decode
StatusBuffers ==
    {[len |-> 512, utf8 |-> TRUE, packet |-> StatusPacket(n, c)] :
        n \in Names, c \in ListenContents}
    \cup {[len |-> 310, utf8 |-> TRUE, packet |-> StatusPacket("Study", c)] :
             c \in ListenContents}
    \cup {[len |-> 512, utf8 |-> FALSE, packet |-> StatusPacket("Study", c)] :
             c \in ListenContents}

\* StatusProtocol.datagram_received(data, addr) with the task it schedules, up
\* to the task's exception or its await of the listeners' coroutines
datagram_received(data, addr) ==
    /\ status_transport["A"] # None
    /\ IF Device_init_raises(data) # None
       THEN /\ received < MaxPackets
            /\ received' = received + 1
            /\ raised' = Device_init_raises(data)
            /\ emitted' = <<>>
            /\ UNCHANGED <<devices, on_new_device, on_device_update,
                           b_devices, b_on_new_device>>
            /\ UNCHANGED <<sessions, wire, calls>>
            /\ UNCHANGED mergeVars
            /\ UNCHANGED ioVars
            /\ UNCHANGED convertVars
            /\ UNCHANGED lifecycleVars
       ELSE async_on_status(data.packet, addr)
    /\ UNCHANGED loopVars

\* DiscoveryPacket.parse(data) without the test of lines 174-176
parse_raises_without_fit(data) ==
    IF data.len < 36 THEN "ValueError"
    ELSE IF ~data.utf8 THEN "UnicodeDecodeError"
    ELSE None

\* DiscoveryPacket.parse(data) raises this exception, or None
parse_raises(data) ==
    IF data.len < 36 THEN "ValueError"
    ELSE IF data.len < 36 + data.name_len THEN "ValueError"
    ELSE IF ~data.utf8 THEN "UnicodeDecodeError"
    ELSE None

\* the DiscoveryPacket that parse(data) returns: the name is the bytes from 36
\* up to 36 + name_len that data has
parse(data) == data.packet

\* the length byte of a discovery buffer that names a Device n
NameLength(n) == IF n = "Living Room" THEN 11 ELSE 5

\* discovery buffers, as their length, their byte 35, whether their name bytes
\* are UTF-8, and the fields their bytes hold: whole ones, one of 35 bytes, one
\* that lacks the last byte of its name
DiscoveryBuffers ==
    {[len |-> 36 + NameLength(p.name), name_len |-> NameLength(p.name),
      utf8 |-> TRUE, packet |-> p] :
        p \in {q \in DiscoveryPackets : q.ip_address = "10.0.0.4"}}
    \cup {[len |-> 35, name_len |-> 0, utf8 |-> TRUE,
           packet |-> [name |-> "", ip_address |-> "10.0.0.4"]],
          [len |-> 46, name_len |-> 11, utf8 |-> TRUE,
           packet |-> [name |-> "Living Roo", ip_address |-> "10.0.0.4"]]}

\* DiscoveryProtocol.datagram_received(data, addr) with the task it schedules
B_datagram_received(data) ==
    /\ status_transport["B"] # None
    /\ IF parse_raises(data) # None
       THEN /\ received < MaxPackets
            /\ received' = received + 1
            /\ raised' = parse_raises(data)
            /\ emitted' = <<>>
            /\ UNCHANGED <<devices, on_new_device, on_device_update,
                           b_devices, b_on_new_device>>
            /\ UNCHANGED <<sessions, wire, calls>>
            /\ UNCHANGED mergeVars
            /\ UNCHANGED ioVars
            /\ UNCHANGED convertVars
            /\ UNCHANGED lifecycleVars
            /\ UNCHANGED loopVars
       ELSE async_on_discovery_packet(parse(data))

\* NetworkController.listen() of family f, by a caller that has no listener
\* bound: create_datagram_endpoint returns the transport
bind(f) ==
    /\ status_transport[f] = None
    /\ status_transport' = [status_transport EXCEPT ![f] = "bound"]
    /\ UNCHANGED <<posted, closes>>
    /\ UNCHANGED convertVars
    /\ UNCHANGED lifecycleVars
    /\ UNCHANGED registryVars
    /\ UNCHANGED mergeVars
    /\ UNCHANGED loopVars
    /\ UNCHANGED commandVars

\* devialet NetworkController.listen()
listen == bind("A")

\* minidsp NetworkController.listen()
B_listen == bind("B")

\* a close() call that tries to close status_transport whatever it is
close_unguarded(f) ==
    /\ calls < MaxCloses
    /\ calls' = calls + 1
    /\ IF status_transport[f] # None
       THEN /\ closes' = [closes EXCEPT ![f] = @ + 1]
            /\ raised' = None
       ELSE /\ closes' = closes
            /\ raised' = "AttributeError"
    /\ status_transport' = [status_transport EXCEPT ![f] = None]
    /\ UNCHANGED <<posted, sessions, wire>>
    /\ UNCHANGED convertVars
    /\ UNCHANGED lifecycleVars
    /\ UNCHANGED registryVars
    /\ UNCHANGED mergeVars
    /\ UNCHANGED loopVars

\* NetworkController.close() of family f: the same statements in both
\* families
unbind(f) ==
    /\ calls < MaxCloses
    /\ calls' = calls + 1
    /\ raised' = None
    /\ IF status_transport[f] # None
       THEN /\ closes' = [closes EXCEPT ![f] = @ + 1]  \* status_transport.close()
            /\ status_transport' = [status_transport EXCEPT ![f] = None]
       ELSE UNCHANGED <<status_transport, closes>>
    /\ UNCHANGED <<posted, sessions, wire>>
    /\ UNCHANGED convertVars
    /\ UNCHANGED lifecycleVars
    /\ UNCHANGED registryVars
    /\ UNCHANGED mergeVars
    /\ UNCHANGED loopVars

\* devialet NetworkController.close()
close == unbind("A")

\* minidsp NetworkController.close()
B_close == unbind("B")

\* minidsp Device.start_websocket_listener(), up to the loop over the messages
start_websocket_listener(d) ==
    /\ b_devices[d].websocket = None
    /\ b_devices' = [b_devices EXCEPT ![d].websocket = "open"]
    /\ UNCHANGED <<devices, on_new_device, on_device_update, emitted,
                   b_on_new_device, received>>
    /\ UNCHANGED mergeVars
    /\ UNCHANGED ioVars
    /\ UNCHANGED convertVars
    /\ UNCHANGED lifecycleVars
    /\ UNCHANGED loopVars
    /\ UNCHANGED commandVars

\* minidsp Device.close(): ClientSession.close() and the websocket's close()
\* return at once on a closed object
B_Device_close(d) ==
    /\ calls < MaxCloses
    /\ calls' = calls + 1
    /\ raised' = None
    /\ b_devices' = [b_devices EXCEPT
                       ![d].session = "closed",
                       ![d].websocket = IF @ = None THEN None ELSE "closed"]
    /\ UNCHANGED <<devices, on_new_device, on_device_update, emitted,
                   b_on_new_device, received>>
    /\ UNCHANGED <<sessions, wire>>
    /\ UNCHANGED mergeVars
    /\ UNCHANGED ioVars
    /\ UNCHANGED convertVars
    /\ UNCHANGED lifecycleVars
    /\ UNCHANGED loopVars

StatusAddrs == {"10.0.0.2"}

\* both controllers constructed, one new_device listener registered with each
InitListen ==
    /\ devices = <<>>
    /\ on_new_device = <<"listener">>
    /\ on_device_update = <<>>
    /\ emitted = <<>>
    /\ b_devices = <<>>
    /\ b_on_new_device = <<"listener">>
    /\ received = 0
    /\ target = NoDevice
    /\ snapshot = NoDevice
    /\ ret = FALSE
    /\ merges = 0
    /\ sessions = <<>>
    /\ wire = [n \in Names |-> <<>>]
    /\ raised = None
    /\ calls = 0
    /\ InitIo

NextListen ==
    \/ listen
    \/ B_listen
    \/ close
    \/ B_close
    \/ \E data \in StatusBuffers, addr \in StatusAddrs :
            datagram_received(data, addr)
    \/ \E data \in DiscoveryBuffers : B_datagram_received(data)
    \/ \E d \in DOMAIN b_devices : start_websocket_listener(d)
    \/ \E d \in DOMAIN b_devices : B_Device_close(d)

SpecListen == InitListen /\ [][NextListen]_vars

-----------------------------------------------------------------------------
(* SpecOrder: the Family A listener on the event loop.  datagram_received   *)
(* only schedules a task per datagram; the loop starts the tasks later, and *)
(* each runs up to its await of the listeners' coroutines, which finish in  *)
(* any order.                                                               *)

\* the scheduled task that the loop starts next: the loop runs its ready
\* callbacks in the order in which they were scheduled
NextTask_last(queue) == Len(queue)

NextTask(queue) == 1

\* StatusProtocol.datagram_received(data, addr): ensure_future schedules the
\* task and returns
ensure_future_on_status(data, addr) ==
    /\ received + Len(tasks) < MaxPackets
    /\ tasks' = Append(tasks, <<data, addr>>)
    /\ last_received' = [last_received EXCEPT ![data.name] = <<data, addr>>]
    /\ UNCHANGED gathering
    /\ UNCHANGED registryVars
    /\ UNCHANGED mergeVars
    /\ UNCHANGED ioVars
    /\ UNCHANGED convertVars
    /\ UNCHANGED lifecycleVars
    /\ UNCHANGED commandVars

\* the loop starts a scheduled task: async_on_status runs up to line 329,
\* where it is suspended if it has listeners' coroutines to await
start_on_status ==
    /\ tasks # <<>>
    /\ async_on_status(tasks[NextTask(tasks)][1], tasks[NextTask(tasks)][2])
    /\ tasks' = RemoveAt(tasks, NextTask(tasks))
    /\ gathering' = gathering + (IF emitted' = <<>> THEN 0 ELSE 1)
    /\ UNCHANGED last_received

\* the coroutines of the listeners that one task awaits have finished: gather
\* returns and the task ends
gather_returns ==
    /\ gathering > 0
    /\ gathering' = gathering - 1
    /\ UNCHANGED <<tasks, last_received>>
    /\ UNCHANGED registryVars
    /\ UNCHANGED mergeVars
    /\ UNCHANGED ioVars
    /\ UNCHANGED convertVars
    /\ UNCHANGED lifecycleVars
    /\ UNCHANGED commandVars

NextOrder ==
    \/ \E l \in Callables : add_listener_on_new_device(l)
    \/ \E l \in Callables : add_listener_on_device_update(l)
    \/ \E d \in StatusDatagrams : ensure_future_on_status(d[1], d[2])
    \/ start_on_status
    \/ gather_returns

SpecOrder == Init /\ [][NextOrder]_vars

-----------------------------------------------------------------------------
(* Properties of the registries (Spec) *)

Kinds(events) == {events[k].kind : k \in 1..Len(events)}

\* C1: every parsed Family A status packet makes exactly one kind of listener
\* call: new_device (one per on_new_device listener) when its name was not in
\* the registry, which then holds it; otherwise device_updated (one per
\* on_device_update listener) carrying the registry's existing Device and the
\* value its update returned, also when that value is False.
C1_OneEventKindPerPacket ==
    [][\A d \in StatusDatagrams :
          async_on_status(d[1], d[2]) =>
            IF d[1].name \notin DOMAIN devices
            THEN /\ d[1].name \in DOMAIN devices'
                 /\ Len(emitted') = Len(on_new_device)
                 /\ \A k \in 1..Len(emitted') :
                       /\ emitted'[k].kind = "new_device"
                       /\ emitted'[k].listener = on_new_device[k]
                       /\ emitted'[k].device = devices'[d[1].name].oid
            ELSE /\ Len(emitted') = Len(on_device_update)
                 /\ \A k \in 1..Len(emitted') :
                       /\ emitted'[k].kind = "device_updated"
                       /\ emitted'[k].listener = on_device_update[k]
                       /\ emitted'[k].device = devices[d[1].name].oid
                       /\ emitted'[k].changed =
                            update(devices[d[1].name],
                                   Device_init(d[1], d[2], NextOid)).ret]_vars

\* a registered listener was called with device_updated and changed = False
C1_Witness ==
    /\ Len(on_device_update) > 0
    /\ Len(emitted) > 0
    /\ \A k \in 1..Len(emitted) :
          emitted[k].kind = "device_updated" /\ ~emitted[k].changed

\* C2: in both families an entry of the registry is never removed and never
\* replaced by another Device object, each processed packet leaves the registry
\* holding exactly the names seen so far, one Device per name, and new_device
\* is emitted only by the packet that creates the entry (so at most once per
\* name).
C2_RegistryEntriesPersist ==
    [][/\ \A n \in DOMAIN devices :
             n \in DOMAIN devices' /\ devices'[n].oid = devices[n].oid
       /\ \A n \in DOMAIN b_devices :
             n \in DOMAIN b_devices' /\ b_devices'[n].oid = b_devices[n].oid
       /\ \A n \in DOMAIN devices' : devices'[n].name = n
       /\ \A n \in DOMAIN b_devices' : b_devices'[n].name = n
       /\ \A d \in StatusDatagrams :
             async_on_status(d[1], d[2]) =>
               /\ DOMAIN devices' = DOMAIN devices \cup {d[1].name}
               /\ "new_device" \in Kinds(emitted') =>
                     d[1].name \notin DOMAIN devices
       /\ \A p \in DiscoveryPackets :
             async_on_discovery_packet(p) =>
               /\ DOMAIN b_devices' = DOMAIN b_devices \cup {p.name}
               /\ "new_device" \in Kinds(emitted') =>
                     p.name \notin DOMAIN b_devices]_vars

\* a Family A entry was mutated in place by a later packet and a Family B entry
\* has been inserted
C2_Witness ==
    /\ \E k \in 1..Len(emitted) :
          /\ emitted[k].kind = "device_updated"
          /\ emitted[k].changed
          /\ emitted[k].device < received
    /\ b_devices # <<>>
    /\ received = MaxPackets

-----------------------------------------------------------------------------
(* Properties of Device.update (SpecUpdate) *)

\* the five fields update compares
Compared(d) == <<d.ip_address, d.source, d.power, d.muted, d.volume>>

\* C3: update with a snapshot of another name returns False and leaves every
\* field of the target as it was.
C3_NameGuard ==
    [][(merges' = merges + 1 /\ snapshot'.name # target.name) =>
          (ret' = FALSE /\ target' = target)]_vars

\* update has been called with a snapshot of another name
C3_Witness ==
    merges > 0 /\ snapshot.name # target.name /\ target.num_packets > 0

\* C4: update with a snapshot equal to the target's state returns False and
\* leaves the target as it was, and a second update with the snapshot of the
\* call before returns False.
C4_MergeIdempotent ==
    [][(merges' = merges + 1) =>
          /\ (/\ snapshot'.name = target.name
              /\ Compared(snapshot') = Compared(target)
              /\ snapshot'.sources = target.sources)
             => (ret' = FALSE /\ target' = target)
          /\ (merges > 0 /\ snapshot' = snapshot) => ret' = FALSE]_vars

\* two updates have been made, the second with a snapshot of the target's name
\* that returned False
C4_Witness ==
    merges >= 2 /\ snapshot.name = target.name /\ ret = FALSE

\* C5: for a snapshot of the same name, update returns True exactly when one
\* of ip_address, source, power, muted, volume differs; afterwards the five
\* fields and the sources list are the snapshot's.
C5_MergeResult ==
    [][(merges' = merges + 1 /\ snapshot'.name = target.name) =>
          /\ ret' = (Compared(snapshot') # Compared(target))
          /\ Compared(target') = Compared(snapshot')
          /\ target'.sources = snapshot'.sources]_vars

\* an update of the same name has returned True
C5_Witness ==
    merges > 0 /\ snapshot.name = target.name /\ ret = TRUE

-----------------------------------------------------------------------------
(* Properties of the command transport (SpecCmd, SpecConc) *)

\* fields of a transmitted datagram: bytes 2-3, 4-5 and 8-9, big-endian
PacketField(datagram) == datagram[3] * 256 + datagram[4]
CommandField(datagram) == datagram[5] * 256 + datagram[6]
Payload(datagram) == datagram[9] * 256 + datagram[10]

\* opcode selectors (bytes 6-7) of the volume and of the source command
IsVolumeFrame(datagram) == datagram[7] = 0 /\ datagram[8] = 4
IsSourceFrame(datagram) == datagram[7] = 0 /\ datagram[8] = 5

\* this step is connection_made of session i
Made(i) ==
    /\ sessions[i].state = "connecting"
    /\ Len(sessions') = Len(sessions)
    /\ sessions'[i].state = "closing"

\* this step is a control call that opened a session
Opened == calls' = calls + 1 /\ Len(sessions') = Len(sessions) + 1

\* the 16-bit value of the volume recorded for Device d
RecordedCode(d) == VolumeValue((devices[d].volume - 195) * 4)

\* C6: one command transmitted N times puts N datagrams on the wire that carry
\* N consecutive packet_counter values, starting at the Device's, and all the
\* Device's command_counter value; it advances packet_counter by N and
\* command_counter by 1 (counters read modulo 65536, as they wrap).
C6_CountersPerCommand ==
    [][\A i \in 1..Len(sessions) :
         Made(i) =>
           LET d == sessions[i].device
               N == sessions[i].times
               w == wire'[d]
           IN  /\ Len(w) = N
               /\ \A k \in 1..N :
                    /\ PacketField(w[k]) = (devices[d].num_packets + k - 1) % 65536
                    /\ CommandField(w[k]) = devices[d].num_commands % 65536
               /\ devices'[d].num_packets % 65536
                    = (devices[d].num_packets + N) % 65536
               /\ devices'[d].num_commands % 65536
                    = (devices[d].num_commands + 1) % 65536]_vars

\* a command sent with the default N = 2 whose two datagrams straddle the wrap
C6_Witness ==
    /\ Len(sessions) = 1
    /\ sessions[1].state = "closing"
    /\ sessions[1].times = 2
    /\ Len(wire["Living Room"]) = 2
    /\ PacketField(wire["Living Room"][1]) = 65535
    /\ PacketField(wire["Living Room"][2]) = 0
    /\ devices["Living Room"].num_packets = 1

\* C7: with several commands of one Device in flight, datagrams leave only in
\* connection_made, and each burst continues the previous one of that Device:
\* packet_counter grows by one per datagram and command_counter by one per
\* command (modulo 65536), whatever the order in which the sessions proceed.
C7_NoDuplicateOrSkippedSequence ==
    [][/\ wire' # wire => \E i \in 1..Len(sessions) : Made(i)
       /\ \A i \in 1..Len(sessions) :
            Made(i) =>
              LET d == sessions[i].device
                  w == wire'[d]
                  prev == wire[d]
              IN  /\ w # <<>>
                  /\ \A k \in 1..(Len(w) - 1) :
                       /\ PacketField(w[k + 1]) = (PacketField(w[k]) + 1) % 65536
                       /\ CommandField(w[k + 1]) = CommandField(w[k])
                  /\ prev # <<>> =>
                       /\ PacketField(w[1])
                            = (PacketField(prev[Len(prev)]) + 1) % 65536
                       /\ CommandField(w[1])
                            = (CommandField(prev[1]) + 1) % 65536]_vars

\* two calls in flight, the later call transmitted first: it carries command
\* number 65535 and the earlier call the number after the wrap
C7_Witness ==
    /\ Len(sessions) = 2
    /\ sessions[1].state = "closing"
    /\ sessions[2].state = "closing"
    /\ CommandField(sessions[2].command) = 65535
    /\ CommandField(sessions[1].command) = 0
    /\ PacketField(wire["Living Room"][1]) = 0

\* C8 as stated: no volume frame is transmitted whose value equals the value of
\* the volume recorded for the Device.
C8_NoOpWhenCodeEqual ==
    [][\A i \in 1..Len(sessions) :
         (Made(i) /\ IsVolumeFrame(sessions[i].command)) =>
            Payload(sessions[i].command) # RecordedCode(sessions[i].device)]_vars

\* C8: a control call either raises ValueError or opens a session, and a
\* volume frame whose value equals the value of the recorded volume is sent
\* like any other command: twice, advancing packet_counter by 2 and
\* command_counter by 1.
C8_EqualCodeStillSent ==
    [][/\ calls' = calls + 1 =>
            \/ Opened
            \/ raised' = "ValueError" /\ sessions' = sessions
       /\ \A i \in 1..Len(sessions) :
            (/\ Made(i)
             /\ IsVolumeFrame(sessions[i].command)
             /\ Payload(sessions[i].command) = RecordedCode(sessions[i].device)) =>
               LET d == sessions[i].device IN
               /\ Len(wire'[d]) = 2
               /\ \A k \in 1..2 :
                    /\ IsVolumeFrame(wire'[d][k])
                    /\ Payload(wire'[d][k]) = RecordedCode(d)
               /\ devices'[d].num_packets % 65536
                    = (devices[d].num_packets + 2) % 65536
               /\ devices'[d].num_commands % 65536
                    = (devices[d].num_commands + 1) % 65536]_vars

\* the Device records -10 dB and two datagrams setting -10 dB have just left
C8_Witness ==
    /\ devices["Living Room"].volume = MAX_VOLUME_INT
    /\ Len(sessions) = 1
    /\ sessions[1].state = "closing"
    /\ Len(wire["Living Room"]) = 2
    /\ IsVolumeFrame(wire["Living Room"][2])
    /\ Payload(wire["Living Room"][2]) = RecordedCode("Living Room")

\* C9 as stated: a source command is only ever opened for a source that
\* get_sources returns, that is an enabled one.
C9_OnlyEnabledSourcesSelected ==
    [][\A d \in DOMAIN devices :
         (/\ Opened
          /\ sessions'[Len(sessions')].device = d
          /\ IsSourceFrame(sessions'[Len(sessions')].command)) =>
            \E index \in SlotIndexes :
               /\ devices[d].sources[index].name \in get_sources(devices[d])
               /\ devices[d].sources[index].is_enabled # 0
               /\ sessions'[Len(sessions')].command = SourceCommand(index)]_vars

\* C10: every volume frame on the wire encodes a level of at most -10 dB: its
\* value is the value of a multiple of 0.5 dB between -10 dB and the quietest
\* level, so none is below 0xC120, the value of -10 dB.
C10_VolumeAtMostMinus10dB ==
    /\ VolumeValue(MAX_VOLUME_DB * 8) = 49440                      \* 0xC120
    /\ \A d \in DOMAIN wire : \A k \in 1..Len(wire[d]) :
         IsVolumeFrame(wire[d][k]) =>
            /\ Payload(wire[d][k]) >= 49440
            /\ \E db \in (-MAX_VOLUME_DB * 8)..MaxDbEighths :
                  db % 4 = 0 /\ Payload(wire[d][k]) = VolumeValue(-db)

\* a Device that records -40 dB has been sent the loudest volume frame
C10_Witness ==
    /\ devices["Living Room"].volume < MAX_VOLUME_INT
    /\ Len(wire["Living Room"]) = 2
    /\ IsVolumeFrame(wire["Living Room"][1])
    /\ Payload(wire["Living Room"][1]) = 49440

\* C11 as stated: no volume frame on the wire encodes a level below -97.5 dB
\* (volume-int 0), whose value is 0xC2C3; the values of quieter levels are
\* larger.
C11_VolumeAtLeastMinimum ==
    \A d \in DOMAIN wire : \A k \in 1..Len(wire[d]) :
       IsVolumeFrame(wire[d][k]) => Payload(wire[d][k]) <= VolumeValue(-780)

-----------------------------------------------------------------------------
(* Properties of the Family B registry and Devices (Spec, SpecB) *)

\* C12 as stated: the volume recorded for every Family B Device lies in
\* [-127.5, 0] dB, and so does every volume handed to the session in a
\* configuration request.
C12_VolumeDbInRange ==
    /\ \A n \in DOMAIN b_devices : b_devices[n].volume_db \in -255..0
    /\ posted.field = "volume" => posted.value \in -255..0

\* C13 as stated: every Family A Device's source is an index of its
\* fifteen-entry sources list and every Family B Device's source is one of
\* the two names of its catalog.
C13_SourceRefersToSources ==
    /\ \A n \in DOMAIN devices : devices[n].source \in 0..14
    /\ \A n \in DOMAIN b_devices : b_devices[n].source \in {"Analog", "Toslink"}

\* C15: the discovery packet of a name that the Family B registry does not
\* hold creates a Device of that name and address with muted = True and
\* volume_db = -127.5 and calls every new_device listener with it; a packet of
\* a name it holds calls no listener and leaves the registry, every field of
\* every Device included, as it was.
C15_DiscoveryCreatesOnce ==
    [][\A p \in DiscoveryPackets :
         async_on_discovery_packet(p) =>
           IF p.name \notin DOMAIN b_devices
           THEN /\ b_devices'[p.name].name = p.name
                /\ b_devices'[p.name].ip_address = p.ip_address
                /\ b_devices'[p.name].muted = TRUE
                /\ b_devices'[p.name].volume_db = -255
                /\ \A n \in DOMAIN b_devices : b_devices'[n] = b_devices[n]
                /\ Len(emitted') = Len(b_on_new_device)
                /\ \A k \in 1..Len(emitted') :
                     /\ emitted'[k].kind = "new_device"
                     /\ emitted'[k].listener = b_on_new_device[k]
                     /\ emitted'[k].device = b_devices'[p.name].oid
           ELSE /\ emitted' = <<>>
                /\ b_devices' = b_devices]_vars

\* two packets named "Living Room" have been received, the later one with a
\* listener registered, and the Device holds a volume, a mute state and a
\* source that a message and a control call gave it
C15_Witness ==
    /\ received = 2
    /\ DOMAIN b_devices = {"Living Room"}
    /\ Len(b_on_new_device) > 0
    /\ emitted = <<>>
    /\ merges > 0
    /\ calls > 0
    /\ b_devices["Living Room"].volume_db = -20
    /\ b_devices["Living Room"].muted = FALSE
    /\ b_devices["Living Room"].source = "Toslink"

\* the fields Device.update may record
Recorded(d) == <<d.source, d.muted, d.volume_db, d.preset>>

\* C16: Device.update records each of source, mute, volume, preset that the
\* message's master object has, keeps the value of each of them that it has
\* not, changes nothing else, and changes nothing at all for a message
\* without a master object.
C16_DeltaFieldByField ==
    [][\A d \in DOMAIN b_devices : \A u \in Deltas :
         B_call_update(d, u) =>
           LET old == b_devices[d]
               new == b_devices'[d]
               Has(key) == "master" \in DOMAIN u /\ key \in DOMAIN u["master"]
           IN  /\ new.source = IF Has("source") THEN u["master"]["source"]
                               ELSE old.source
               /\ new.muted = IF Has("mute") THEN u["master"]["mute"]
                              ELSE old.muted
               /\ new.volume_db = IF Has("volume") THEN u["master"]["volume"]
                                  ELSE old.volume_db
               /\ new.preset = IF Has("preset") THEN u["master"]["preset"]
                               ELSE old.preset
               /\ [new EXCEPT !.source = old.source, !.muted = old.muted,
                              !.volume_db = old.volume_db,
                              !.preset = old.preset] = old
               /\ "master" \notin DOMAIN u => new = old
               /\ \A n \in DOMAIN b_devices \ {d} :
                     b_devices'[n] = b_devices[n]]_vars

\* a control call selected Toslink, then a message with mute and volume only
\* left the source as it was
C16_Witness ==
    /\ merges = 1
    /\ calls = 1
    /\ "Living Room" \in DOMAIN b_devices
    /\ posted.field = "source"
    /\ Recorded(b_devices["Living Room"]) = <<"Toslink", FALSE, -20, 0>>

\* C17: async_select_source with a name other than Analog and Toslink and
\* async_select_preset with a preset outside 0..4 raise ValueError, hand no
\* request to the session and leave the registry as it was; with a valid
\* argument they record it and hand the session a request carrying it.
C17_ValidateBeforeTransmit ==
    [][\A d \in DOMAIN b_devices :
         /\ \A n \in B_SourceInputs :
              (calls' = calls + 1 /\ B_async_select_source(d, n)) =>
                 IF n \in {"Analog", "Toslink"}
                 THEN /\ posted' = [device |-> d, field |-> "source", value |-> n]
                      /\ b_devices'[d].source = n
                      /\ raised' = None
                 ELSE /\ raised' = "ValueError"
                      /\ posted' = posted
                      /\ b_devices' = b_devices
         /\ \A p \in B_PresetInputs :
              (calls' = calls + 1 /\ B_async_select_preset(d, p)) =>
                 IF p \in 0..4
                 THEN /\ posted' = [device |-> d, field |-> "preset", value |-> p]
                      /\ b_devices'[d].preset = p
                      /\ raised' = None
                 ELSE /\ raised' = "ValueError"
                      /\ posted' = posted
                      /\ b_devices' = b_devices]_vars

\* preset 4 was selected and sent, then a call with an invalid argument raised
\* ValueError and left the request and the Device as they were
C17_Witness ==
    /\ calls = 2
    /\ raised = "ValueError"
    /\ posted = [device |-> "Living Room", field |-> "preset", value |-> 4]
    /\ b_devices["Living Room"].preset = 4
    /\ b_devices["Living Room"].source = None

-----------------------------------------------------------------------------
(* Properties of the command sessions (SpecCmdFair) *)

\* C14: a session leaves "connecting" only by sending all its datagrams and
\* asking its transport to close, or by the failure of
\* create_datagram_endpoint, which ends the call with OSError and nothing
\* sent; it is closed by connection_lost only; async_send_command returns
\* normally only from a session that connection_lost has closed; and every
\* session that was opened is eventually gone.
C14_SessionsAlwaysClosed ==
    /\ [][\A i \in 1..Len(sessions) :
            /\ sessions' = RemoveAt(sessions, i) =>
                 \/ /\ sessions[i].state = "closed"
                    /\ raised' = None
                 \/ /\ sessions[i].state = "connecting"
                    /\ raised' = "OSError"
                    /\ wire' = wire
            /\ (/\ Len(sessions') = Len(sessions)
                /\ sessions'[i].state # sessions[i].state) =>
                 \/ /\ sessions[i].state = "connecting"
                    /\ sessions'[i].state = "closing"
                    /\ Len(wire'[sessions[i].device]) = sessions[i].times
                 \/ /\ sessions[i].state = "closing"
                    /\ sessions'[i].state = "closed"
                    /\ wire' = wire]_vars
    /\ (sessions # <<>>) ~> (sessions = <<>>)

\* a command of three datagrams was sent and its call has returned; the call
\* after it failed to open its endpoint
C14_Witness ==
    /\ calls = 2
    /\ sessions = <<>>
    /\ raised = "OSError"
    /\ Len(wire["Living Room"]) = 3

-----------------------------------------------------------------------------
(* Properties of the listeners (SpecListen) *)

\* C18: a Family A status buffer shorter than 311 bytes or whose name bytes do
\* not decode, and a Family B discovery buffer shorter than 36 bytes or than
\* 36 + name_length, leave both registries as they were, every Device
\* included, make no listener call and leave the listener bound; a whole
\* buffer received by a bound listener puts its name in the registry.
C18_MalformedPacketsDiscarded ==
    [][/\ \A data \in StatusBuffers : \A addr \in StatusAddrs :
            datagram_received(data, addr) =>
               IF data.len < 311 \/ ~data.utf8
               THEN /\ devices' = devices
                    /\ b_devices' = b_devices
                    /\ emitted' = <<>>
                    /\ status_transport' = status_transport
               ELSE /\ data.packet.name \in DOMAIN devices'
                    /\ status_transport' = status_transport
       /\ \A data \in DiscoveryBuffers :
            B_datagram_received(data) =>
               IF data.len < 36 \/ data.len < 36 + data.name_len
               THEN /\ devices' = devices
                    /\ b_devices' = b_devices
                    /\ emitted' = <<>>
                    /\ status_transport' = status_transport
               ELSE /\ data.packet.name \in DOMAIN b_devices'
                    /\ status_transport' = status_transport]_vars

\* the Family A listener's first datagram was cut after byte 309 and its task
\* raised; the whole buffer it received next created the Device and called
\* the listener
C18_Witness ==
    /\ received = 2
    /\ raised = "IndexError"
    /\ b_devices = <<>>
    /\ DOMAIN devices = {"Study"}
    /\ devices["Study"].oid = 2
    /\ Len(emitted) = 1
    /\ status_transport["A"] = "bound"

\* C20: NetworkController.close of either family and Device.close return
\* without an exception whether or not listen / start_websocket_listener was
\* called before and whether or not close was; after NetworkController.close
\* status_transport is None, and the transport is closed once if one was
\* bound and not at all otherwise.
C20_CloseIdempotent ==
    [][/\ calls' = calls + 1 => raised' = None
       /\ \A f \in Families :
            (calls' = calls + 1 /\ unbind(f)) =>
               /\ status_transport'[f] = None
               /\ closes'[f] = closes[f]
                              + (IF status_transport[f] = "bound" THEN 1 ELSE 0)
               /\ \A g \in Families \ {f} :
                     /\ status_transport'[g] = status_transport[g]
                     /\ closes'[g] = closes[g]
       /\ \A d \in DOMAIN b_devices :
            (calls' = calls + 1 /\ B_Device_close(d)) =>
               /\ b_devices'[d].session = "closed"
               /\ b_devices'[d].websocket \in {None, "closed"}
               /\ b_devices'[d].websocket = None <=> b_devices[d].websocket = None]_vars

\* close was called twice on controllers that had never listened
C20_Witness ==
    /\ calls = 2
    /\ received = 0
    /\ status_transport = [f \in Families |-> None]
    /\ closes = [f \in Families |-> 0]
    /\ raised = None

-----------------------------------------------------------------------------
(* Properties of the listener's tasks (SpecOrder) *)

\* the tasks scheduled for datagrams of Device n that have not started
Pending(n) == {k \in 1..Len(tasks) : tasks[k][1].name = n}

\* C19: once every task scheduled for a Device's datagrams has run, whatever
\* the listeners' coroutines of earlier tasks are doing, the Device's address,
\* source, power, mute state, volume and source list are those of the datagram
\* of its name that was received last.
C19_MergesInReceiveOrder ==
    \A n \in DOMAIN devices :
       Pending(n) = {} =>
          LET last == Device_init(last_received[n][1], last_received[n][2], 0)
          IN  /\ Compared(devices[n]) = Compared(last)
              /\ devices[n].sources = last.sources

\* three datagrams of one Device have all been merged, the last of them
\* changing it, while the listeners' coroutines of two tasks are still awaited
C19_Witness ==
    /\ received = 3
    /\ tasks = <<>>
    /\ gathering = 2
    /\ DOMAIN devices = {"Living Room"}
    /\ devices["Living Room"].oid = 1
    /\ devices["Living Room"].volume = 0
    /\ devices["Living Room"].ip_address = "10.0.0.2"
    /\ Len(emitted) = 1
    /\ emitted[1].kind = "device_updated"
    /\ emitted[1].changed

-----------------------------------------------------------------------------
(* Properties of the counters and of the frame encoding (SpecCmd) *)

\* C21 as stated: num_packets and num_commands of every Device are in
\* 0..65535 in every state.
C21_CountersWithin16Bits ==
    \A d \in DOMAIN devices :
       /\ devices[d].num_packets \in 0..65535
       /\ devices[d].num_commands \in 0..65535

\* C21: the counters of a transmitted frame are in 0..65535 and the value
\* that follows 65535 on the wire is 0; the Device's num_packets and
\* num_commands are in 0..65536, where 65536 is held from the increment after
\* the frame that carried 65535 until the next prepare_command resets it.
C21_CountersWrapOnTheWire ==
    /\ [](\A d \in DOMAIN devices :
            /\ devices[d].num_packets \in 0..65536
            /\ devices[d].num_commands \in 0..65536
            /\ \A k \in 1..Len(wire[d]) :
                 /\ \A b \in 3..6 : wire[d][k][b] \in 0..255
                 /\ (k < Len(wire[d]) /\ PacketField(wire[d][k]) = 65535) =>
                       PacketField(wire[d][k + 1]) = 0)
    /\ [][\A i \in 1..Len(sessions) :
            Made(i) =>
              LET d == sessions[i].device IN
              /\ devices[d].num_packets >= 65535 =>
                    PacketField(wire'[d][1]) = devices[d].num_packets % 65536
              /\ devices[d].num_commands >= 65535 =>
                    CommandField(wire'[d][1]) = devices[d].num_commands % 65536
              /\ PacketField(wire'[d][Len(wire'[d])]) = 65535 =>
                    devices'[d].num_packets = 65536
              /\ CommandField(wire'[d][1]) = 65535 =>
                    devices'[d].num_commands = 65536]_vars

\* a command has left in frames numbered 65534 and 65535 as command 65535,
\* and the Device holds 65536 in both counters
C21_Witness ==
    /\ Len(wire["Living Room"]) = 2
    /\ PacketField(wire["Living Room"][2]) = 65535
    /\ CommandField(wire["Living Room"][2]) = 65535
    /\ devices["Living Room"].num_packets = 65536
    /\ devices["Living Room"].num_commands = 65536

\* CRC-16/CCITT-FALSE as a shift register fed one message bit at a time, most
\* significant bit first: the bit leaving the register, xored with the message
\* bit, decides whether the polynomial 0x1021 is xored in
RegisterBit(reg, bit) ==
    IF (Bit(reg, 15) + bit) % 2 = 1
    THEN ToggleBit(ToggleBit(ToggleBit((reg * 2) % 65536, 0), 5), 12)
    ELSE (reg * 2) % 65536

RegisterByte(reg, byte) ==
    RegisterBit(RegisterBit(RegisterBit(RegisterBit(
    RegisterBit(RegisterBit(RegisterBit(RegisterBit(reg,
        Bit(byte, 7)), Bit(byte, 6)), Bit(byte, 5)), Bit(byte, 4)),
        Bit(byte, 3)), Bit(byte, 2)), Bit(byte, 1)), Bit(byte, 0))

RECURSIVE RegisterFold(_, _, _)
RegisterFold(reg, data, i) ==
    IF i > Len(data) \/ reg < 0 THEN reg     \* reg is never negative
    ELSE RegisterFold(RegisterByte(reg, data[i]), data, i + 1)

\* the register starts at 0xFFFF and its final value is the checksum
CcittFalse(data) == RegisterFold(65535, data, 1)

\* "123456789", whose CRC-16/CCITT-FALSE is 0x29B1
CheckString == <<49, 50, 51, 52, 53, 54, 55, 56, 57>>

\* what _crc16 and the shift register give for it
CheckValues == <<crc16(CheckString), CcittFalse(CheckString)>>

\* the checksum a datagram carries in bytes 12-13
CrcField(datagram) == datagram[13] * 256 + datagram[14]

\* C22: every datagram on the wire, repetitions included, starts with 0x44
\* 0x72 and carries in bytes 12-13 the CRC-16/CCITT-FALSE of its own bytes
\* 0-11; _crc16 gives the check value 0x29B1 for "123456789".
C22_FramesCarryTheirCrc ==
    /\ CheckValues = <<10673, 10673>>
    /\ \A d \in DOMAIN wire : \A k \in 1..Len(wire[d]) :
          /\ wire[d][k][1] = 68
          /\ wire[d][k][2] = 114
          /\ CrcField(wire[d][k]) = CcittFalse(SubSeq(wire[d][k], 1, 12))

\* a command was sent three times: the three datagrams differ in their
\* packet counter and in their checksum
C22_Witness ==
    /\ Len(wire["Living Room"]) = 3
    /\ PacketField(wire["Living Room"][3]) = PacketField(wire["Living Room"][1]) + 2
    /\ CrcField(wire["Living Room"][1]) # CrcField(wire["Living Room"][2])
    /\ CrcField(wire["Living Room"][2]) # CrcField(wire["Living Room"][3])

-----------------------------------------------------------------------------------------------------------------------------------------------------
(* SpecConvert: _db_convert called on its own, on every argument from       *)
(* -10 dB to 10 dB in eighths of a dB.  SpecSelect: async_select_source     *)
(* called on a Device whose status datagram names all fifteen source slots. *)

MaxConvert == 80

\* arguments of _db_convert, in eighths of a dB
ConvertInputs == -MaxConvert..MaxConvert

\* a call _db_convert(v) that returns, or raises (retval = ValueErrorCode)
call_db_convert(v) ==
    /\ db_input' = v
    /\ retval' = db_convert(v)
    /\ UNCHANGED registryVars
    /\ UNCHANGED mergeVars
    /\ UNCHANGED commandVars
    /\ UNCHANGED ioVars
    /\ UNCHANGED lifecycleVars
    /\ UNCHANGED loopVars

NextConvert == \E v \in ConvertInputs : call_db_convert(v)

\* no call has been made: Init
SpecConvert == Init /\ [][NextConvert]_vars

EncodeContents == {[b307 |-> 128, b308 |-> 0, b310 |-> 175, tbl |-> 3]}
EncodeSourceInputs == {FullSlotNames[i + 1] : i \in SlotIndexes}

InitSelect == InitCommands(Registries(EncodeContents, {<<0, 0>>}))

NextSelect ==
    \/ \E d \in DOMAIN devices, n \in EncodeSourceInputs :
            CanCall(1) /\ async_select_source(d, n)
    \/ Transport

SpecSelect == InitSelect /\ [][NextSelect]_vars

-----
(* Properties of the two encodings (SpecSelect, SpecConvert) *)

\* the slot of content 3 that carries that name
SlotOf(name) == CHOOSE i \in SlotIndexes : FullSlotNames[i + 1] = name

\* bytes 6 to 9 of a buffer
Selector(command) == <<command[7], command[8], command[9], command[10]>>

\* 0x4000 | (i << 5) written out bit by bit: bit 14, and the bits of i moved
\* up by five places
SelectValue(i) ==
    16384 + 32 * (i % 2) + 64 * ((i \div 2) % 2) + 128 * ((i \div 4) % 2)
          + 256 * ((i \div 8) % 2)

\* C23: the source-select command for the source of index i in 0..14 carries
\* the opcode bytes (0x00, 0x05); byte 8 is the high byte of 0x4000 | (i << 5);
\* byte 9 is its low byte for i <= 7 and its low byte shifted right by one bit
\* for i > 7 (index 10: byte 8 = 0x41, byte 9 = 0x20); the datagrams
\* transmitted for the command carry the same four bytes.
C23_SourceSelectEncoding ==
    /\ [][\A d \in DOMAIN devices, n \in EncodeSourceInputs :
            (CanCall(1) /\ async_select_source(d, n)) =>
                LET i == SlotOf(n)
                    command == sessions'[Len(sessions')].command
                IN  /\ Selector(command) =
                          << 0, 5, SelectValue(i) \div 256,
                             IF i <= 7 THEN SelectValue(i) % 256
                             ELSE (SelectValue(i) % 256) \div 2 >>
                    /\ i = 10 => command[9] = 65 /\ command[10] = 32]_vars
    /\ [][\A s \in 1..Len(sessions) :
            Made(s) =>
                \A k \in 1..Len(wire'[sessions[s].device]) :
                    Selector(wire'[sessions[s].device][k])
                        = Selector(sessions[s].command)]_vars

\* the source of index 10 was selected and its two datagrams are on the wire
C23_Witness ==
    /\ Len(wire["Living Room"]) = 2
    /\ \A k \in 1..2 : Selector(wire["Living Room"][k]) = <<0, 5, 65, 32>>

\* the arguments the statement is about: 0.5 dB steps up to 10 dB, either sign
HalfSteps(v) == v % 4 = 0 /\ Abs(v) <= 80

\* C24: _db_convert returns 0 for 0, 0x3F00 for 0.5 dB and 0x4120 for 10 dB;
\* on the 0.5 dB steps from 0 to 10 dB its result depends only on the absolute
\* value of its argument and never decreases as the absolute value grows.
C24_ConvertMonotoneInAbs ==
    /\ [](HalfSteps(db_input) =>
            /\ db_input = 0 => retval = 0
            /\ Abs(db_input) = 4 => retval = 16128
            /\ Abs(db_input) = 80 => retval = 16672
            /\ retval >= 0)
    /\ [][(HalfSteps(db_input) /\ HalfSteps(db_input')) =>
            /\ Abs(db_input') = Abs(db_input) => retval' = retval
            /\ Abs(db_input') >= Abs(db_input) => retval' >= retval]_convertVars

\* _db_convert(-10.0) returned 0x4120
C24_Witness == db_input = -80 /\ retval = 16672

\* C25: the dB-to-code transform reaches a base case for every value the
\* volume setters pass to it, so every async_set_volume_db call, for a multiple
\* of 0.5 dB or not, completes the encoding and hands a command to the
\* transport.
C25_SetVolumeDbCompletes ==
    [][\A d \in DOMAIN devices, v \in DbInputs :
            (CanCall(1) /\ async_set_volume_db(d, v)) =>
                /\ Opened
                /\ IsVolumeFrame(sessions'[Len(sessions')].command)]_vars

-----------------------------------------------------------------------------
(* SpecPair: two registered Family A Devices that are sent commands, with   *)
(* calls overlapping on the event loop.                                     *)

PairAddrs == [n \in Names |-> IF n = "Living Room" THEN "10.0.0.2" ELSE "10.0.0.3"]

\* the registries after one status datagram from each Device and some commands
PairDevices ==
    {[n \in Names |->
        [Device_init(StatusPacket(n, c), PairAddrs[n],
                     IF n = "Living Room" THEN 1 ELSE 2)
            EXCEPT !.num_packets = k[1], !.num_commands = k[2]]] :
        c \in {x \in CmdContents : x.b310 = 175},
        k \in {<<65534, 65535>>}}

PairSourceInputs == {"USB"}

InitPair ==
    /\ devices \in PairDevices
    /\ on_new_device = <<>>
    /\ on_device_update = <<>>
    /\ emitted = <<>>
    /\ b_devices = <<>>
    /\ b_on_new_device = <<>>
    /\ received = 2
    /\ target = NoDevice
    /\ snapshot = NoDevice
    /\ ret = FALSE
    /\ merges = 0
    /\ sessions = <<>>
    /\ wire = [n \in Names |-> <<>>]
    /\ raised = None
    /\ calls = 0
    /\ InitIo

NextPair ==
    \/ \E d \in DOMAIN devices : CanCall(MaxInflight) /\ async_turn_on(d)
    \/ \E d \in DOMAIN devices, n \in PairSourceInputs :
            CanCall(MaxInflight) /\ async_select_source(d, n)
    \/ Transport

SpecPair == InitPair /\ [][NextPair]_vars

-----------------------------------------------------------------------------
(* SpecControl: the four kinds of control operation of one registered       *)
(* Family A Device, one call at a time, while the status listener keeps     *)
(* receiving.                                                               *)

NextControl ==
    \/ \E d \in DOMAIN devices : CanCall(1) /\ async_toggle_power(d)
    \/ \E d \in DOMAIN devices, m \in BOOLEAN : CanCall(1) /\ async_mute(d, m)
    \/ \E d \in DOMAIN devices : CanCall(1) /\ async_volume_down(d)
    \/ \E d \in DOMAIN devices, n \in PairSourceInputs :
            CanCall(1) /\ async_select_source(d, n)
    \/ \E d \in CmdDatagrams :
            async_on_status(d[1], d[2]) /\ UNCHANGED loopVars
    \/ Transport

SpecControl == InitConc /\ [][NextControl]_vars

-----------------------------------------------------------------------------
(* Properties of the registered Family A Devices while commands are sent    *)
(* and status datagrams are merged (SpecConc)                               *)

\* C26: in every reachable state, after any sequence of parses, merges and
\* control operations, every Source entry of every registered Family A Device
\* has is_selected equal to (its index = the Device's source index).
C26_SelectedFlagsFollowSource ==
    \A d \in DOMAIN devices :
        \A i \in SlotIndexes :
            /\ devices[d].sources[i].index = i
            /\ devices[d].sources[i].is_selected
                  = (devices[d].sources[i].index = devices[d].source)

\* a status datagram that moved the selection from source 0 to source 1 was
\* merged into a Device that has been sent a command
C26_Witness ==
    /\ devices["Living Room"].source = 1
    /\ devices["Living Room"].sources[1].is_selected
    /\ ~devices["Living Room"].sources[0].is_selected
    /\ devices["Living Room"].oid = 1
    /\ wire["Living Room"] # <<>>

-----------------------------------------------------------------------------
(* Properties of commands sent to two Devices (SpecPair) *)

\* this step is create_datagram_endpoint raising in the call of session i
Failed(i) ==
    /\ sessions[i].state = "connecting"
    /\ Len(sessions') = Len(sessions) - 1
    /\ raised' = "OSError"

\* C27: a Device's fields and the datagrams sent to it change only in the
\* connection_made of a command sent to that Device, so a command to one Device,
\* failing or not, changes no other Device; a command that fails changes no
\* Device at all, and whenever a command is transmitted, after a failure too,
\* its datagrams carry the sending Device's counters.
C27_CommandsStayOnTheirDevice ==
    /\ [][\A e \in DOMAIN devices :
            (devices'[e] # devices[e] \/ wire'[e] # wire[e]) =>
                \E i \in 1..Len(sessions) :
                    Made(i) /\ sessions[i].device = e]_vars
    /\ [][\A i \in 1..Len(sessions) :
            Failed(i) => devices' = devices /\ wire' = wire]_vars
    /\ [][\A i \in 1..Len(sessions) :
            Made(i) =>
                LET d == sessions[i].device
                    w == wire'[d]
                IN  /\ Len(w) = sessions[i].times
                    /\ \A k \in 1..Len(w) :
                         /\ PacketField(w[k])
                               = (devices[d].num_packets + k - 1) % 65536
                         /\ CommandField(w[k]) = devices[d].num_commands % 65536
                         /\ Selector(w[k]) = Selector(sessions[i].command)]_vars

\* one command ended with OSError and a command to "Living Room" has been
\* transmitted with that Device's counters, "Study" being as it was registered
C27_Witness ==
    /\ raised = "OSError"
    /\ calls = 2
    /\ Len(sessions) = 1
    /\ sessions[1].device = "Living Room"
    /\ sessions[1].state = "closing"
    /\ Len(wire["Living Room"]) = 2
    /\ PacketField(wire["Living Room"][1]) = 65534
    /\ devices["Living Room"].num_commands = 65536
    /\ devices["Study"].num_commands = 65535
    /\ wire["Study"] = <<>>

-----------------------------------------------------------------------------
(* Properties of the control operations next to the status merges           *)
(* (SpecControl)                                                            *)

\* the fields a status datagram reports
Observable(dev) ==
    <<dev.power, dev.muted, dev.volume, dev.source, dev.sources, dev.ip_address>>

\* this step is async_on_status handling a datagram
Merged == received' = received + 1

\* C29: power, muted, volume, source, sources and ip_address of a registered
\* Family A Device change only in a status merge; a control operation (power,
\* mute, volume, source select) changes nothing at its call, and nothing but
\* num_packets and num_commands when its datagrams are sent.
C29_ControlChangesOnlyCounters ==
    /\ [][\A d \in DOMAIN devices :
            Observable(devices'[d]) # Observable(devices[d]) => Merged]_vars
    /\ [][calls' = calls + 1 => devices' = devices]_vars
    /\ [][~Merged =>
            \A d \in DOMAIN devices :
                devices'[d] = [devices[d] EXCEPT
                                 !.num_packets = devices'[d].num_packets,
                                 !.num_commands = devices'[d].num_commands]]_vars

\* mute was commanded and its datagrams sent: the counters moved, the Device
\* is still recorded as not muted
C29_Witness ==
    /\ Len(wire["Living Room"]) = 2
    /\ Selector(wire["Living Room"][1]) = <<1, 7, 0, 0>>
    /\ ~devices["Living Room"].muted
    /\ devices["Living Room"].num_commands = 65536

-----------------------------------------------------------------------------
(* SpecLifecycle: the host side.  hass.data holds at most one                *)
(* NetworkController under DATA_NETWORK_CONTROLLER; async_setup starts it    *)
(* and registers shutdown_event, every _async_has_devices call starts it,    *)
(* waits for a device, and stops it when it has none.  A controller is the   *)
(* record of its status_transport, of the close() calls made on that         *)
(* transport and of the names in its devices; hass_data is its position in   *)
(* controllers, 0 when the key is absent.                                    *)

MaxControllers == 3
MaxFlows == 2

\* NetworkController()
NetworkController_init == [status_transport |-> None, closes |-> 0, devices |-> {}]

\* NetworkController.listen() on nc; ok: create_datagram_endpoint returned
NetworkController_listen(nc, ok) ==
    IF ok THEN [nc EXCEPT !.status_transport = "bound"] ELSE nc

\* NetworkController.close() on nc
NetworkController_close(nc) ==
    IF nc.status_transport # None
    THEN [nc EXCEPT !.status_transport = None, !.closes = @ + 1]
    ELSE nc

\* async_start_network_controller(hass) with hass.data as data and the
\* controllers constructed so far ncs: what it leaves, returns (nc) and raises
async_start_network_controller(data, ncs, ok) ==
    IF data # 0
    THEN [hass_data |-> data, controllers |-> ncs, nc |-> data, raised |-> None]
    ELSE [hass_data |-> Len(ncs) + 1,
          controllers |-> Append(ncs,
                             NetworkController_listen(NetworkController_init, ok)),
          nc |-> Len(ncs) + 1,
          raised |-> IF ok THEN None ELSE "OSError"]

\* async_stop_network_controller that drops the key and leaves the listener open
async_stop_network_controller_keeps_open(data, ncs) ==
    [hass_data |-> 0, controllers |-> ncs]

\* async_stop_network_controller(hass)
async_stop_network_controller(data, ncs) ==
    IF data = 0
    THEN [hass_data |-> data, controllers |-> ncs]
    ELSE [hass_data |-> 0,
          controllers |-> [ncs EXCEPT ![data] = NetworkController_close(@)]]

\* a start may construct a controller
CanStart == hass_data # 0 \/ Len(controllers) < MaxControllers

\* async_setup(hass, config)
async_setup(ok) ==
    LET started == async_start_network_controller(hass_data, controllers, ok) IN
    /\ bus = "empty"
    /\ CanStart
    /\ hass_data' = started.hass_data
    /\ controllers' = started.controllers
    /\ bus' = IF started.raised = None THEN "listening" ELSE "failed"
    /\ UNCHANGED flows
    /\ UNCHANGED registryVars
    /\ UNCHANGED mergeVars
    /\ UNCHANGED commandVars
    /\ UNCHANGED ioVars
    /\ UNCHANGED convertVars
    /\ UNCHANGED loopVars

\* shutdown_event(event), at EVENT_HOMEASSISTANT_STOP
shutdown_event ==
    LET stopped == async_stop_network_controller(hass_data, controllers) IN
    /\ bus = "listening"
    /\ hass_data' = stopped.hass_data
    /\ controllers' = stopped.controllers
    /\ bus' = "fired"
    /\ UNCHANGED flows
    /\ UNCHANGED registryVars
    /\ UNCHANGED mergeVars
    /\ UNCHANGED commandVars
    /\ UNCHANGED ioVars
    /\ UNCHANGED convertVars
    /\ UNCHANGED loopVars

\* _async_has_devices(hass) up to device_ready.wait()
has_devices_waits(ok) ==
    LET started == async_start_network_controller(hass_data, controllers, ok) IN
    /\ Len(flows) < MaxFlows
    /\ CanStart
    /\ hass_data' = started.hass_data
    /\ controllers' = started.controllers
    /\ flows' = IF started.raised = None THEN Append(flows, started.nc) ELSE flows
    /\ UNCHANGED bus
    /\ UNCHANGED registryVars
    /\ UNCHANGED mergeVars
    /\ UNCHANGED commandVars
    /\ UNCHANGED ioVars
    /\ UNCHANGED convertVars
    /\ UNCHANGED loopVars

\* _async_has_devices(hass) of flow k from the end of the wait
has_devices_returns(k) ==
    LET stopped == async_stop_network_controller(hass_data, controllers) IN
    /\ IF controllers[flows[k]].devices = {}       \* not nc.get_devices()
       THEN /\ hass_data' = stopped.hass_data
            /\ controllers' = stopped.controllers
       ELSE UNCHANGED <<hass_data, controllers>>
    /\ flows' = RemoveAt(flows, k)
    /\ UNCHANGED bus
    /\ UNCHANGED registryVars
    /\ UNCHANGED mergeVars
    /\ UNCHANGED commandVars
    /\ UNCHANGED ioVars
    /\ UNCHANGED convertVars
    /\ UNCHANGED loopVars

\* a status datagram of the Device called name reaches the listener of
\* controller c, which registers the name if it is new
status_received(c, name) ==
    /\ controllers[c].status_transport # None
    /\ name \notin controllers[c].devices
    /\ controllers' = [controllers EXCEPT ![c].devices = @ \cup {name}]
    /\ UNCHANGED <<hass_data, flows, bus>>
    /\ UNCHANGED registryVars
    /\ UNCHANGED mergeVars
    /\ UNCHANGED commandVars
    /\ UNCHANGED ioVars
    /\ UNCHANGED convertVars
    /\ UNCHANGED loopVars

NextLifecycle ==
    \/ \E ok \in BOOLEAN : async_setup(ok)
    \/ shutdown_event
    \/ \E ok \in BOOLEAN : has_devices_waits(ok)
    \/ \E k \in 1..Len(flows) : has_devices_returns(k)
    \/ \E c \in 1..Len(controllers), name \in Names : status_received(c, name)

SpecLifecycle == Init /\ [][NextLifecycle]_vars

-----------------------------------------------------------------------------
(* Properties of the host-side lifecycle (SpecLifecycle) *)

\* the controllers whose listener is open
Listening == {c \in 1..Len(controllers) : controllers[c].status_transport # None}

====
